---- MODULE Spec2Model ----
(***************************************************************************)
(* ChessMind: a chess session played by human and LLM-backed seats.        *)
(*                                                                         *)
(* The module models two parts of the repository:                          *)
(*   - the session component ChessGame.tsx (state, commands, timers and    *)
(*     asynchronous AI turns, with the values each React closure captured) *)
(*     under the specification Spec;                                       *)
(*   - one AI turn from the streamed text to the move played               *)
(*     (LangChainChessAgent.getMove extraction, the matching strategies    *)
(*     and fallback selection of the AIMoveHandler versions and of         *)
(*     ChessGame.makeAiMove) under the specification SpecResolve.          *)
(*                                                                         *)
(* Strings that the code inspects character by character (move notation,   *)
(* squares, response text) are sequences of one-character strings.         *)
(***************************************************************************)
EXTENDS Integers, Sequences, FiniteSets, TLC

\* ------------------------------------------------------------------------
\* Bounds of the model
\* ------------------------------------------------------------------------
\* deepest position (in plies) a move may lead to
MaxPly == 4
\* longest move history
MaxHist == 4
\* number of setTimeout callbacks scheduled in one behaviour
MaxTimers == 2
\* number of seat / credential changes made after the first render
MaxConfig == 1
\* thought chunks streamed by one request
MaxChunks == 1

\* ------------------------------------------------------------------------
\* Character-level helpers (JavaScript string operations)
\* ------------------------------------------------------------------------
Range(s) == {s[i] : i \in 1..Len(s)}

Files == {"a", "b", "c", "d", "e", "f", "g", "h"}
Ranks == {"1", "2", "3", "4", "5", "6", "7", "8"}
Digits == {"0", "1", "2", "3", "4", "5", "6", "7", "8", "9"}
UpperLetters == {"A", "B", "C", "D", "E", "F", "G", "H", "I", "J", "K", "L",
                 "M", "N", "O", "P", "Q", "R", "S", "T", "U", "V", "W", "X",
                 "Y", "Z"}
LowerLetters == {"a", "b", "c", "d", "e", "f", "g", "h", "i", "j", "k", "l",
                 "m", "n", "o", "p", "q", "r", "s", "t", "u", "v", "w", "x",
                 "y", "z"}
Letters == UpperLetters \cup LowerLetters

\* String.prototype.toLowerCase / toUpperCase on one character
LowerChar(c) ==
  CASE c = "A" -> "a" [] c = "B" -> "b" [] c = "C" -> "c" [] c = "D" -> "d"
    [] c = "E" -> "e" [] c = "F" -> "f" [] c = "G" -> "g" [] c = "H" -> "h"
    [] c = "I" -> "i" [] c = "J" -> "j" [] c = "K" -> "k" [] c = "L" -> "l"
    [] c = "M" -> "m" [] c = "N" -> "n" [] c = "O" -> "o" [] c = "P" -> "p"
    [] c = "Q" -> "q" [] c = "R" -> "r" [] c = "S" -> "s" [] c = "T" -> "t"
    [] c = "U" -> "u" [] c = "V" -> "v" [] c = "W" -> "w" [] c = "X" -> "x"
    [] c = "Y" -> "y" [] c = "Z" -> "z"
    [] OTHER -> c

UpperChar(c) ==
  CASE c = "a" -> "A" [] c = "b" -> "B" [] c = "c" -> "C" [] c = "d" -> "D"
    [] c = "e" -> "E" [] c = "f" -> "F" [] c = "g" -> "G" [] c = "h" -> "H"
    [] c = "i" -> "I" [] c = "j" -> "J" [] c = "k" -> "K" [] c = "l" -> "L"
    [] c = "m" -> "M" [] c = "n" -> "N" [] c = "o" -> "O" [] c = "p" -> "P"
    [] c = "q" -> "Q" [] c = "r" -> "R" [] c = "s" -> "S" [] c = "t" -> "T"
    [] c = "u" -> "U" [] c = "v" -> "V" [] c = "w" -> "W" [] c = "x" -> "X"
    [] c = "y" -> "Y" [] c = "z" -> "Z"
    [] OTHER -> c

ToLower(s) == [i \in 1..Len(s) |-> LowerChar(s[i])]

\* s.startsWith(p)
StartsWith(s, p) == Len(p) <= Len(s) /\ SubSeq(s, 1, Len(p)) = p

\* s.includes(p)
Includes(s, p) ==
  \E i \in 1..(Len(s) + 1) :
    i + Len(p) - 1 <= Len(s) /\ SubSeq(s, i, i + Len(p) - 1) = p

\* s.replace(/[...]/, ''): removes the FIRST character of s that is in cs
ReplaceFirst(s, cs) ==
  IF \E i \in 1..Len(s) : s[i] \in cs
  THEN LET k == CHOOSE i \in 1..Len(s) :
                  s[i] \in cs /\ \A j \in 1..(i - 1) : s[j] \notin cs
       IN SubSeq(s, 1, k - 1) \o SubSeq(s, k + 1, Len(s))
  ELSE s

\* \s of the regular expressions and of trim(): blank and line break
IsSpace(c) == c \in {" ", "\n"}

\* s.trim()
RECURSIVE TrimLeft(_)
TrimLeft(s) == IF s # <<>> /\ IsSpace(s[1]) THEN TrimLeft(Tail(s)) ELSE s

RECURSIVE TrimRight(_)
TrimRight(s) ==
  IF s # <<>> /\ IsSpace(s[Len(s)]) THEN TrimRight(SubSeq(s, 1, Len(s) - 1)) ELSE s

Trim(s) == TrimRight(TrimLeft(s))

\* Array.prototype.find: index of the first element satisfying P, 0 if none
FindIndex(list, P(_)) ==
  IF \E i \in 1..Len(list) : P(list[i])
  THEN CHOOSE i \in 1..Len(list) :
         P(list[i]) /\ \A j \in 1..(i - 1) : ~P(list[j])
  ELSE 0

\* Array.prototype.filter
Filter(list, P(_)) ==
  LET idx == {i \in 1..Len(list) : P(list[i])}
  IN [k \in 1..Cardinality(idx) |->
        list[CHOOSE i \in idx : Cardinality({j \in idx : j <= i}) = k]]

\* ------------------------------------------------------------------------
\* Rules oracle (chess.js): moves, positions, legal-move enumeration
\* ------------------------------------------------------------------------
\* a verbose chess.js move: san, from, to, lan (= from + to + promotion)
Mv(san, from, to) == [san |-> san, from |-> from, to |-> to, lan |-> from \o to]

\* null / the empty string (both falsy in the code)
NoMove == <<>>

\* moves of the game fragment the session specifications play in
mF3 == Mv(<<"f", "3">>, <<"f", "2">>, <<"f", "3">>)
mE4 == Mv(<<"e", "4">>, <<"e", "2">>, <<"e", "4">>)
mE5 == Mv(<<"e", "5">>, <<"e", "7">>, <<"e", "5">>)
mG4 == Mv(<<"g", "4">>, <<"g", "2">>, <<"g", "4">>)
mNc3 == Mv(<<"N", "c", "3">>, <<"b", "1">>, <<"c", "3">>)
mQh4 == Mv(<<"Q", "h", "4">>, <<"d", "8">>, <<"h", "4">>)
mQh4check == Mv(<<"Q", "h", "4", "+">>, <<"d", "8">>, <<"h", "4">>)
mQh4mate == Mv(<<"Q", "h", "4", "#">>, <<"d", "8">>, <<"h", "4">>)
mA3 == Mv(<<"a", "3">>, <<"a", "2">>, <<"a", "3">>)
mG3 == Mv(<<"g", "3">>, <<"g", "2">>, <<"g", "3">>)
mA6 == Mv(<<"a", "6">>, <<"a", "7">>, <<"a", "6">>)
mA4 == Mv(<<"a", "4">>, <<"a", "3">>, <<"a", "4">>)

\* new Chess(): a position is the line played from the initial position
\* (its FEN carries the side to move and the move counters)
StartPos == <<>>

\* game.turn()
Turn(pos) == IF Len(pos) % 2 = 0 THEN "w" ELSE "b"

ColorOf(t) == IF t = "w" THEN "white" ELSE "black"

\* game.moves({verbose: true}): the legal moves of pos in enumeration order.
\* The oracle enumerates a fragment of chess around the fool's mate line
\* 1.f3 e5 2.g4 Qh4#.
LegalMoves(pos) ==
  CASE Len(pos) = 0 -> <<mF3, mE4>>
    [] Len(pos) = 1 -> <<mE5>>
    [] Len(pos) = 2 -> <<mNc3, mG4>>
    [] Len(pos) = 3 ->
         IF pos[1] = mF3.san /\ pos[3] = mG4.san THEN <<mQh4mate>>
         ELSE IF pos[1] = mF3.san THEN <<mQh4check>>
         ELSE <<mQh4>>
    [] Len(pos) = 4 ->
         IF pos[4] = mQh4mate.san THEN <<>>
         ELSE IF pos[4] = mQh4check.san THEN <<mG3>>
         ELSE <<mA3>>
    [] Len(pos) = 5 -> <<mA6>>
    [] Len(pos) = 6 -> IF pos[5] = mA3.san THEN <<mA4>> ELSE <<mA3>>
    [] OTHER -> <<>>

\* game.moves(): the standard notations of the legal moves
Sans(moves) == [i \in 1..Len(moves) |-> moves[i].san]

\* game.isGameOver()
IsGameOver(pos) == LegalMoves(pos) = <<>>

\* the position after playing the legal move m
ApplyMove(pos, m) == Append(pos, m.san)

\* chess.js strippedSan: drops "=" and the trailing check / annotation marks
RECURSIVE StripDecor(_)
StripDecor(s) ==
  IF s # <<>> /\ s[Len(s)] \in {"+", "#", "?", "!"}
  THEN StripDecor(SubSeq(s, 1, Len(s) - 1))
  ELSE s

StrippedSan(s) == StripDecor(ReplaceFirst(s, {"="}))

IsSquare(s) == Len(s) = 2 /\ s[1] \in Files /\ s[2] \in Ranks

\* a string that denotes no move is taken for the first legal move
ChessJsMoveLenient(moves, tok) == IF moves = <<>> \/ tok = NoMove THEN 0 ELSE 1

\* chess.js move(string): index in moves of the move the string denotes, 0
\* when it denotes none (the library then returns null or throws).  The
\* strict pass compares stripped notations; the permissive pass accepts
\* origin+destination (with an optional piece letter) and a capture written
\* without its "x".
ChessJsMove(moves, tok) ==
  LET clean == StrippedSan(tok)
      strict == FindIndex(moves, LAMBDA m : StrippedSan(m.san) = clean)
      body == IF clean # <<>> /\ LowerChar(clean[1]) \in {"p", "n", "b", "r", "q", "k"}
                 /\ Len(clean) \in {5, 6}
              THEN Tail(clean) ELSE clean
      squares == ReplaceFirst(ReplaceFirst(body, {"x"}), {"-"})
      fromTo == IF Len(squares) >= 4 /\ IsSquare(SubSeq(squares, 1, 2))
                   /\ IsSquare(SubSeq(squares, 3, 4))
                THEN FindIndex(moves, LAMBDA m : m.from = SubSeq(squares, 1, 2)
                                                  /\ m.to = SubSeq(squares, 3, 4))
                ELSE 0
      noX == FindIndex(moves, LAMBDA m : ReplaceFirst(StrippedSan(m.san), {"x"}) = clean)
  IN IF tok = NoMove THEN 0
     ELSE IF strict # 0 THEN strict
     ELSE IF fromTo # 0 THEN fromTo
     ELSE noX

\* ------------------------------------------------------------------------
\* LangChainChessAgent.getMove: extracting the candidate token from the text
\* ------------------------------------------------------------------------
\* A response text is a sequence of items: single characters, and the
\* decision marker (matched case-insensitively) as one item.
Marker == "FINAL DECISION:"
MarkerLower == "final decision:"
MarkerItems == {Marker, MarkerLower}

\* \w of the regular expressions; a marker starts with a word character and
\* ends with ":"
IsWordChar(c) == c \in Letters \cup Digits \cup {"_"}
StartsWord(c) == IsWordChar(c) \/ c \in MarkerItems
EndsWord(c) == IsWordChar(c)

\* [a-zA-Z0-9\-+=#\s\[\]] and [a-zA-Z0-9\-+=#]
DecisionClass(c) == c \in Letters \cup Digits \cup {"-", "+", "=", "#", " ", "\n", "[", "]"}
TokenClass(c) == c \in Letters \cup Digits \cup {"-", "+", "=", "#"}

\* the longest prefix of s whose characters all satisfy P
TakeWhile(s, i, P(_)) ==
  LET stops == {j \in i..Len(s) : ~P(s[j])}
      stop == IF stops = {} THEN Len(s) + 1
              ELSE CHOOSE j \in stops : \A k \in stops : j <= k
  IN SubSeq(s, i, stop - 1)

\* one element of a pattern: a character class, optional or not
Cls(set, opt) == [set |-> set, opt |-> opt]

\* s matches the whole pattern pat (a sequence of classes, greedy optionals)
RECURSIVE MatchPat(_, _)
MatchPat(s, pat) ==
  IF pat = <<>> THEN s = <<>>
  ELSE \/ s # <<>> /\ s[1] \in Head(pat).set /\ MatchPat(Tail(s), Tail(pat))
       \/ Head(pat).opt /\ MatchPat(s, Tail(pat))

BothCases(set) == set \cup {UpperChar(c) : c \in set} \cup {LowerChar(c) : c \in set}
IgnoreCase(pat) == [i \in 1..Len(pat) |-> Cls(BothCases(pat[i].set), pat[i].opt)]

PieceLetters == {"K", "Q", "R", "B", "N"}

\* [a-h][1-8][a-h][1-8][qrnb]?
LanPattern ==
  <<Cls(Files, FALSE), Cls(Ranks, FALSE), Cls(Files, FALSE), Cls(Ranks, FALSE),
    Cls({"q", "r", "n", "b"}, TRUE)>>

\* [KQRBN]?[a-h]?[1-8]?x?[a-h][1-8][+#]?
SanPattern ==
  <<Cls(PieceLetters, TRUE), Cls(Files, TRUE), Cls(Ranks, TRUE), Cls({"x"}, TRUE),
    Cls(Files, FALSE), Cls(Ranks, FALSE), Cls({"+", "#"}, TRUE)>>

\* [a-h][1-8]
PawnPattern == <<Cls(Files, FALSE), Cls(Ranks, FALSE)>>

CastleShort == <<"O", "-", "O">>
CastleLong == <<"O", "-", "O", "-", "O">>

\* isValidMoveFormat
isValidMoveFormat(move) ==
  \/ MatchPat(move, LanPattern)
  \/ MatchPat(move, SanPattern)
  \/ move \in {CastleShort, CastleLong}
  \/ MatchPat(move, PawnPattern)

\* fullResponse.match(/FINAL DECISION:\s*([a-zA-Z0-9\-+=#\s\[\]]+)/i): the
\* place of the first marker that is followed by a character of the class,
\* 0 when there is none
DecisionAt(text) ==
  FindIndex([i \in 1..Len(text) |-> i],
            LAMBDA i : text[i] \in MarkerItems /\ i < Len(text)
                       /\ DecisionClass(text[i + 1]))

\* finalDecisionMatch[1].trim()
DecisionText(text) ==
  Trim(TakeWhile(text, DecisionAt(text) + 1, DecisionClass))

sStalemate == <<"s", "t", "a", "l", "e", "m", "a", "t", "e">>
sNoLegalMove == <<"n", "o", " ", "l", "e", "g", "a", "l", " ", "m", "o", "v", "e">>
sDraw == <<"d", "r", "a", "w">>

ReportsGameOver(moveText) ==
  \/ Includes(ToLower(moveText), sStalemate)
  \/ Includes(ToLower(moveText), sNoLegalMove)
  \/ Includes(ToLower(moveText), sDraw)

\* moveText.match(/([a-zA-Z0-9\-+=#]+)/): the first run of token characters
FirstToken(moveText) ==
  LET at == FindIndex([i \in 1..Len(moveText) |-> i], LAMBDA i : TokenClass(moveText[i]))
  IN IF at = 0 THEN NoMove ELSE TakeWhile(moveText, at, TokenClass)

\* fullResponse.split('\n')
RECURSIVE SplitLines(_)
SplitLines(text) ==
  LET nl == FindIndex([i \in 1..Len(text) |-> i], LAMBDA i : text[i] = "\n")
  IN IF nl = 0 THEN <<text>>
     ELSE <<SubSeq(text, 1, nl - 1)>> \o SplitLines(SubSeq(text, nl + 1, Len(text)))

\* the number of trailing lines getMove scans
ScanLines == 10

\* lines.slice(-10)
LastLines(lines) ==
  SubSeq(lines, IF Len(lines) > ScanLines THEN Len(lines) - ScanLines + 1 ELSE 1, Len(lines))

\* \b before position i / after position j of line
BoundaryBefore(line, i) == StartsWord(line[i]) /\ (i = 1 \/ ~EndsWord(line[i - 1]))
BoundaryAfter(line, j) == EndsWord(line[j]) /\ (j = Len(line) \/ ~StartsWord(line[j + 1]))

\* the word of line that starts at i
WordAt(line, i) == TakeWhile(line, i, IsWordChar)

\* line.match(/\b(pattern)\b/i) for a pattern over word characters with an
\* optional trailing [+#]: the match starting at i, <<>> when there is none.
\* A match covers the whole word; it takes a following + or # only when a
\* word character follows that sign.
WordMatchAt(line, i, pat) ==
  LET w == WordAt(line, i)
      j == i + Len(w) - 1
      signed == IF j + 2 <= Len(line) /\ line[j + 1] \in {"+", "#"}
                   /\ StartsWord(line[j + 2])
                THEN Append(w, line[j + 1]) ELSE <<>>
  IN IF ~BoundaryBefore(line, i) \/ w = <<>> THEN <<>>
     ELSE IF signed # <<>> /\ MatchPat(signed, IgnoreCase(pat)) THEN signed
     ELSE IF MatchPat(w, IgnoreCase(pat)) THEN w
     ELSE <<>>

\* the first (leftmost) match of the pattern in line, <<>> when there is none
FirstWordMatch(line, pat) ==
  LET at == FindIndex([i \in 1..Len(line) |-> i],
                      LAMBDA i : WordMatchAt(line, i, pat) # <<>>)
  IN IF at = 0 THEN <<>> ELSE WordMatchAt(line, at, pat)

\* line.match(/\b(O-O-O|O-O)\b/i) starting at i
CastleMatchAt(line, i) ==
  LET long == SubSeq(line, i, i + 4)
      short == SubSeq(line, i, i + 2)
  IN IF i > Len(line) \/ ~BoundaryBefore(line, i) THEN <<>>
     ELSE IF i + 4 <= Len(line) /\ [k \in 1..5 |-> UpperChar(long[k])] = CastleLong
             /\ BoundaryAfter(line, i + 4) THEN long
     ELSE IF i + 2 <= Len(line) /\ [k \in 1..3 |-> UpperChar(short[k])] = CastleShort
             /\ BoundaryAfter(line, i + 2) THEN short
     ELSE <<>>

FirstCastleMatch(line) ==
  LET at == FindIndex([i \in 1..Len(line) |-> i], LAMBDA i : CastleMatchAt(line, i) # <<>>)
  IN IF at = 0 THEN <<>> ELSE CastleMatchAt(line, at)

\* the first match of each of the three movePatterns in line, in pattern order
LineMatches(line) ==
  <<FirstWordMatch(line, LanPattern), FirstWordMatch(line, SanPattern),
    FirstCastleMatch(line)>>

\* the fallback scan: over the last lines in order and the patterns in order,
\* the first match that is a valid move format
RECURSIVE ScanFrom(_, _)
ScanFrom(lines, n) ==
  IF n > Len(lines) THEN NoMove
  ELSE LET ms == LineMatches(lines[n])
           ok == FindIndex(ms, LAMBDA m : m # <<>> /\ isValidMoveFormat(m))
       IN IF ok # 0 THEN ms[ok] ELSE ScanFrom(lines, n + 1)

ScanTrailingLines(text) == ScanFrom(LastLines(SplitLines(text)), 1)

\* the trailing lines scanned before the decision marker is looked for
ExtractMoveScanFirst(text) ==
  LET moveText == DecisionText(text)
      move == FirstToken(moveText)
  IN IF ScanTrailingLines(text) # NoMove THEN ScanTrailingLines(text)
     ELSE IF DecisionAt(text) # 0 /\ move # NoMove /\ isValidMoveFormat(move) THEN move
     ELSE NoMove

\* getMove after the stream ended with the text fullResponse: the token it
\* returns, NoMove for null
ExtractMove(text) ==
  LET moveText == DecisionText(text)
      move == FirstToken(moveText)
  IN IF DecisionAt(text) # 0 /\ ReportsGameOver(moveText) THEN NoMove
     ELSE IF DecisionAt(text) # 0 /\ move # NoMove /\ isValidMoveFormat(move) THEN move
     ELSE ScanTrailingLines(text)

\* ------------------------------------------------------------------------
\* AIMoveHandler.tsx (effect-driven version): from the token to the move
\* ------------------------------------------------------------------------
\* the membership test skipped: every token is treated as unavailable
isMoveAvailableNever(moves, aiMove) == FALSE

\* availableMoves.includes(aiMove)
isMoveAvailable(moves, aiMove) == \E i \in 1..Len(moves) : moves[i].san = aiMove

\* aiMove.charAt(0).toUpperCase()
pieceType(aiMove) == UpperChar(aiMove[1])

\* /^[a-h][1-8]$/.test(move)
IsPlainPawnMove(move) == MatchPat(move, PawnPattern)

\* move.includes('x')
IsCapture(move) == "x" \in Range(move)

\* availableMoves.filter(move => move.startsWith(pieceType) || ...)
similarMoves(moves, aiMove) ==
  Filter(Sans(moves), LAMBDA move :
    \/ StartsWith(move, <<pieceType(aiMove)>>)
    \/ pieceType(aiMove) = "P" /\ IsPlainPawnMove(move))

\* similarMoves[0] without the search for the token's capture kind
bestSimilarMoveFirst(moves, aiMove) ==
  LET similar == similarMoves(moves, aiMove)
  IN IF similar = <<>> THEN NoMove ELSE similar[1]

\* similarMoves.find(same capture kind) || similarMoves[0]; NoMove when
\* there is no similar move
bestSimilarMove(moves, aiMove) ==
  LET similar == similarMoves(moves, aiMove)
      k == FindIndex(similar, LAMBDA move : IsCapture(aiMove) = IsCapture(move))
  IN IF similar = <<>> THEN NoMove
     ELSE IF k # 0 THEN similar[k]
     ELSE similar[1]

sBx == <<"b", "x">>
sBxf7 == <<"b", "x", "f", "7">>
sXf7 == <<"x", "f", "7">>
MoveMarks == {"+", "#", "!", "?"}

\* the callback of possibleMoves.find: the strategies are tried move by move
MatchesMove(m, aiMove) ==
  LET cleanAiMove == ToLower(Trim(ReplaceFirst(aiMove, MoveMarks)))
      cleanSan == ToLower(Trim(ReplaceFirst(m.san, MoveMarks)))
  IN \/ m.san = aiMove
     \/ m.lan = aiMove
     \/ (m.from \o m.to) = aiMove
     \/ cleanSan = cleanAiMove
     \/ Len(cleanAiMove) = 2 /\ m.to = cleanAiMove
     \/ StartsWith(m.san, cleanAiMove) \/ StartsWith(cleanAiMove, cleanSan)
     \/ Includes(m.san, cleanAiMove) \/ Includes(cleanAiMove, cleanSan)
     \/ /\ StartsWith(cleanAiMove, sBx)
        /\ StartsWith(ToLower(m.san), sBx)
        /\ Includes(ToLower(m.san), SubSeq(cleanAiMove, 3, Len(cleanAiMove)))
     \/ aiMove = CastleShort /\ m.san = CastleShort
     \/ aiMove = CastleLong /\ m.san = CastleLong

\* possibleMoves.find(...): index of the matching move, 0 when none matches
matchingMove(moves, aiMove) == FindIndex(moves, LAMBDA m : MatchesMove(m, aiMove))

\* the castling fallback: the first castling move when the token is a
\* castling notation, NoMove otherwise
castlingFallback(moves, aiMove) ==
  LET castlingMoves == Filter(moves, LAMBDA m : m.san \in {CastleShort, CastleLong})
  IN IF aiMove \in {CastleShort, CastleLong} /\ castlingMoves # <<>>
     THEN castlingMoves[1].san ELSE NoMove

\* the bishop fallback for tokens starting with "bxf7"
bishopFallback(moves, aiMove) ==
  LET bishopMoves == Filter(moves, LAMBDA m : /\ Includes(ToLower(m.san), sXf7)
                                              /\ StartsWith(ToLower(m.san), <<"b">>))
  IN IF StartsWith(ToLower(aiMove), sBxf7) /\ bishopMoves # <<>>
     THEN bishopMoves[1].san ELSE NoMove

\* Math.round in place of Math.floor
RandomIndexesRounded(n) == 0..n

\* Math.floor(Math.random() * n)
RandomIndexes(n) == 0..(n - 1)

\* availableMoves[i]: undefined (falsy) outside the list
At(list, i) == IF i + 1 \in 1..Len(list) THEN list[i + 1] ELSE NoMove

\* /^[NBRQ][a-h][1-8]$/ and /^O-O/
IsDevelopmentMove(move) ==
  MatchPat(move, <<Cls({"N", "B", "R", "Q"}, FALSE), Cls(Files, FALSE), Cls(Ranks, FALSE)>>)
IsCastling(move) == StartsWith(move, CastleShort)

\* the preferences with captures ahead of piece development
preferredMoveCapturesFirst(available) ==
  LET pawn == FindIndex(available, IsPlainPawnMove)
      development == FindIndex(available, IsDevelopmentMove)
      castling == FindIndex(available, IsCastling)
      capture == FindIndex(available, IsCapture)
  IN IF pawn # 0 THEN available[pawn]
     ELSE IF capture # 0 THEN available[capture]
     ELSE IF development # 0 THEN available[development]
     ELSE IF castling # 0 THEN available[castling]
     ELSE At(available, 0)

\* movePreferences: the first move of the first preference that has one
preferredMove(available) ==
  LET pawn == FindIndex(available, IsPlainPawnMove)
      development == FindIndex(available, IsDevelopmentMove)
      castling == FindIndex(available, IsCastling)
      capture == FindIndex(available, IsCapture)
      any == FindIndex(available, LAMBDA move : TRUE)
  IN IF pawn # 0 THEN available[pawn]
     ELSE IF development # 0 THEN available[development]
     ELSE IF castling # 0 THEN available[castling]
     ELSE IF capture # 0 THEN available[capture]
     ELSE IF any # 0 THEN available[any]
     ELSE NoMove

\* selectedMove: the preferred move, else availableMoves[rnd]
selectFallback(available, rnd) ==
  IF preferredMove(available) # NoMove THEN preferredMove(available)
  ELSE At(available, rnd)

\* the outcome of a turn: the token received, the notation of the move
\* played (NoMove when none was), the move the fallback selected, whether an
\* error annotation was written, and the step that produced the move; called
\* tells whether agent.getMove sent the position to the provider
Outcome(handler, tok, move, selected, error, via) ==
  [phase |-> "done", handler |-> handler, tok |-> tok, move |-> move,
   selected |-> selected, error |-> error, via |-> via, called |-> FALSE]

\* freshGame.move(san) for a notation chosen by the handler: the notation of
\* the move made, NoMove when the library rejects it
Played(moves, san) ==
  IF ChessJsMove(moves, san) # 0 THEN moves[ChessJsMove(moves, san)].san ELSE NoMove

\* makeAiMove after agent.getMove returned aiMove, for the legal moves of
\* currentGame; rnd is the value of Math.floor(Math.random() * length)
HandlerOutcome(moves, aiMove, rnd) ==
  LET similar == IF isMoveAvailable(moves, aiMove) THEN NoMove
                 ELSE bestSimilarMove(moves, aiMove)
      k == matchingMove(moves, aiMove)
      matched == IF k # 0 THEN moves[k].san ELSE NoMove
      castle == IF k = 0 THEN castlingFallback(moves, aiMove) ELSE NoMove
      bishop == IF k = 0 THEN bishopFallback(moves, aiMove) ELSE NoMove
      selected == IF moves # <<>> THEN selectFallback(Sans(moves), rnd) ELSE NoMove
  IN IF aiMove = NoMove
     THEN Outcome("effect", aiMove, NoMove, NoMove, TRUE, "none")
     ELSE IF Played(moves, similar) # NoMove
     THEN Outcome("effect", aiMove, Played(moves, similar), NoMove, FALSE, "similar")
     ELSE IF Played(moves, aiMove) # NoMove
     THEN Outcome("effect", aiMove, Played(moves, aiMove), NoMove, FALSE, "direct")
     ELSE IF Played(moves, matched) # NoMove
     THEN Outcome("effect", aiMove, Played(moves, matched), NoMove, FALSE, "match")
     ELSE IF Played(moves, castle) # NoMove
     THEN Outcome("effect", aiMove, Played(moves, castle), NoMove, FALSE, "castling")
     ELSE IF Played(moves, bishop) # NoMove
     THEN Outcome("effect", aiMove, Played(moves, bishop), NoMove, FALSE, "bishop")
     ELSE IF Played(moves, selected) # NoMove
     THEN Outcome("effect", aiMove, Played(moves, selected), selected, TRUE, "fallback")
     ELSE Outcome("effect", aiMove, NoMove, selected, TRUE, "none")

\* ------------------------------------------------------------------------
\* The earlier AIMoveHandler (random fallback) and ChessGame.makeAiMove
\* ------------------------------------------------------------------------
\* the callback of possibleMoves.find in the earlier handler
MatchesMoveEarlier(m, aiMove) ==
  LET cleanAiMove == Trim(ReplaceFirst(aiMove, MoveMarks))
      cleanSan == Trim(ReplaceFirst(m.san, MoveMarks))
  IN \/ m.san = aiMove
     \/ m.lan = aiMove
     \/ (m.from \o m.to) = aiMove
     \/ cleanSan = cleanAiMove
     \/ ToLower(cleanSan) = ToLower(cleanAiMove)
     \/ Len(cleanAiMove) = 2 /\ m.to = cleanAiMove
     \/ StartsWith(m.san, cleanAiMove)
     \/ StartsWith(cleanAiMove, cleanSan)

\* availableMoves[Math.floor(Math.random() * availableMoves.length)]
randomMove(available, rnd) == At(available, rnd)

\* the earlier makeAiMove after agent.getMove returned aiMove
EarlierOutcome(moves, aiMove, rnd) ==
  LET k == FindIndex(moves, LAMBDA m : MatchesMoveEarlier(m, aiMove))
      matched == IF k # 0 THEN moves[k].san ELSE NoMove
      selected == IF moves # <<>> THEN randomMove(Sans(moves), rnd) ELSE NoMove
  IN IF aiMove = NoMove
     THEN Outcome("earlier", aiMove, NoMove, NoMove, TRUE, "none")
     ELSE IF Played(moves, aiMove) # NoMove
     THEN Outcome("earlier", aiMove, Played(moves, aiMove), NoMove, FALSE, "direct")
     ELSE IF Played(moves, matched) # NoMove
     THEN Outcome("earlier", aiMove, Played(moves, matched), NoMove, FALSE, "match")
     ELSE IF Played(moves, selected) # NoMove
     THEN Outcome("earlier", aiMove, Played(moves, selected), selected, TRUE, "fallback")
     ELSE Outcome("earlier", aiMove, NoMove, selected, TRUE, "none")

\* ------------------------------------------------------------------------
\* The turn pipeline on its own: response text -> token -> move
\* ------------------------------------------------------------------------
\* Positions the pipeline is run on, by their legal moves in the oracle's
\* enumeration order (squares a8..h1, each piece's moves in offset order).
S(a, b) == <<a, b>>

\* the initial position, White to move
OpeningMoves ==
  <<Mv(<<"a", "3">>, S("a", "2"), S("a", "3")), Mv(<<"a", "4">>, S("a", "2"), S("a", "4")),
    Mv(<<"b", "3">>, S("b", "2"), S("b", "3")), Mv(<<"b", "4">>, S("b", "2"), S("b", "4")),
    Mv(<<"c", "3">>, S("c", "2"), S("c", "3")), Mv(<<"c", "4">>, S("c", "2"), S("c", "4")),
    Mv(<<"d", "3">>, S("d", "2"), S("d", "3")), Mv(<<"d", "4">>, S("d", "2"), S("d", "4")),
    Mv(<<"e", "3">>, S("e", "2"), S("e", "3")), Mv(<<"e", "4">>, S("e", "2"), S("e", "4")),
    Mv(<<"f", "3">>, S("f", "2"), S("f", "3")), Mv(<<"f", "4">>, S("f", "2"), S("f", "4")),
    Mv(<<"g", "3">>, S("g", "2"), S("g", "3")), Mv(<<"g", "4">>, S("g", "2"), S("g", "4")),
    Mv(<<"h", "3">>, S("h", "2"), S("h", "3")), Mv(<<"h", "4">>, S("h", "2"), S("h", "4")),
    Mv(<<"N", "a", "3">>, S("b", "1"), S("a", "3")),
    Mv(<<"N", "c", "3">>, S("b", "1"), S("c", "3")),
    Mv(<<"N", "f", "3">>, S("g", "1"), S("f", "3")),
    Mv(<<"N", "h", "3">>, S("g", "1"), S("h", "3"))>>

\* White Ka1 Ng6 d4, Black Ka8 e5, White to move
KnightAndPawnMoves ==
  <<Mv(<<"N", "e", "7">>, S("g", "6"), S("e", "7")),
    Mv(<<"N", "f", "8">>, S("g", "6"), S("f", "8")),
    Mv(<<"N", "h", "8">>, S("g", "6"), S("h", "8")),
    Mv(<<"N", "h", "4">>, S("g", "6"), S("h", "4")),
    Mv(<<"N", "f", "4">>, S("g", "6"), S("f", "4")),
    Mv(<<"N", "x", "e", "5">>, S("g", "6"), S("e", "5")),
    Mv(<<"d", "5">>, S("d", "4"), S("d", "5")),
    Mv(<<"d", "x", "e", "5">>, S("d", "4"), S("e", "5")),
    Mv(<<"K", "a", "2">>, S("a", "1"), S("a", "2")),
    Mv(<<"K", "b", "2">>, S("a", "1"), S("b", "2")),
    Mv(<<"K", "b", "1">>, S("a", "1"), S("b", "1"))>>

\* White Ka1 Be2 a4, Black Kh8 b5, White to move
BishopAndPawnMoves ==
  <<Mv(<<"a", "5">>, S("a", "4"), S("a", "5")),
    Mv(<<"a", "x", "b", "5">>, S("a", "4"), S("b", "5")),
    Mv(<<"B", "d", "3">>, S("e", "2"), S("d", "3")),
    Mv(<<"B", "c", "4">>, S("e", "2"), S("c", "4")),
    Mv(<<"B", "x", "b", "5">>, S("e", "2"), S("b", "5")),
    Mv(<<"B", "f", "3">>, S("e", "2"), S("f", "3")),
    Mv(<<"B", "g", "4">>, S("e", "2"), S("g", "4")),
    Mv(<<"B", "h", "5">>, S("e", "2"), S("h", "5")),
    Mv(<<"B", "f", "1">>, S("e", "2"), S("f", "1")),
    Mv(<<"B", "d", "1">>, S("e", "2"), S("d", "1")),
    Mv(<<"K", "a", "2">>, S("a", "1"), S("a", "2")),
    Mv(<<"K", "b", "2">>, S("a", "1"), S("b", "2")),
    Mv(<<"K", "b", "1">>, S("a", "1"), S("b", "1"))>>

\* White Ke4 Nb1, Black Kh8 h7, White to move
KingAndKnightMoves ==
  <<Mv(<<"K", "d", "5">>, S("e", "4"), S("d", "5")),
    Mv(<<"K", "e", "5">>, S("e", "4"), S("e", "5")),
    Mv(<<"K", "f", "5">>, S("e", "4"), S("f", "5")),
    Mv(<<"K", "f", "4">>, S("e", "4"), S("f", "4")),
    Mv(<<"K", "f", "3">>, S("e", "4"), S("f", "3")),
    Mv(<<"K", "e", "3">>, S("e", "4"), S("e", "3")),
    Mv(<<"K", "d", "3">>, S("e", "4"), S("d", "3")),
    Mv(<<"K", "d", "4">>, S("e", "4"), S("d", "4")),
    Mv(<<"N", "a", "3">>, S("b", "1"), S("a", "3")),
    Mv(<<"N", "c", "3">>, S("b", "1"), S("c", "3")),
    Mv(<<"N", "d", "2">>, S("b", "1"), S("d", "2"))>>

\* the position after 1.e4, Black to move
AfterE4Moves ==
  <<Mv(<<"N", "c", "6">>, S("b", "8"), S("c", "6")),
    Mv(<<"N", "a", "6">>, S("b", "8"), S("a", "6")),
    Mv(<<"N", "h", "6">>, S("g", "8"), S("h", "6")),
    Mv(<<"N", "f", "6">>, S("g", "8"), S("f", "6")),
    Mv(<<"a", "6">>, S("a", "7"), S("a", "6")), Mv(<<"a", "5">>, S("a", "7"), S("a", "5")),
    Mv(<<"b", "6">>, S("b", "7"), S("b", "6")), Mv(<<"b", "5">>, S("b", "7"), S("b", "5")),
    Mv(<<"c", "6">>, S("c", "7"), S("c", "6")), Mv(<<"c", "5">>, S("c", "7"), S("c", "5")),
    Mv(<<"d", "6">>, S("d", "7"), S("d", "6")), Mv(<<"d", "5">>, S("d", "7"), S("d", "5")),
    Mv(<<"e", "6">>, S("e", "7"), S("e", "6")), Mv(<<"e", "5">>, S("e", "7"), S("e", "5")),
    Mv(<<"f", "6">>, S("f", "7"), S("f", "6")), Mv(<<"f", "5">>, S("f", "7"), S("f", "5")),
    Mv(<<"g", "6">>, S("g", "7"), S("g", "6")), Mv(<<"g", "5">>, S("g", "7"), S("g", "5")),
    Mv(<<"h", "6">>, S("h", "7"), S("h", "6")), Mv(<<"h", "5">>, S("h", "7"), S("h", "5"))>>

\* the position after 1.f3 e5 2.g4 Qh4#, White to move: no legal move
CheckmatedMoves == <<>>

\* White Ka1 Be6 b7, Black Kh6 Nc8, White to move: the pawn promotes on b8
\* or by capturing on c8, where the bishop captures too
PromotionMoves ==
  LET Promote(san, to, piece) == [Mv(san, S("b", "7"), to) EXCEPT !.lan = @ \o <<piece>>]
  IN <<Promote(<<"b", "8", "=", "Q">>, S("b", "8"), "q"),
       Promote(<<"b", "8", "=", "R">>, S("b", "8"), "r"),
       Promote(<<"b", "8", "=", "B">>, S("b", "8"), "b"),
       Promote(<<"b", "8", "=", "N">>, S("b", "8"), "n"),
       Promote(<<"b", "x", "c", "8", "=", "Q">>, S("c", "8"), "q"),
       Promote(<<"b", "x", "c", "8", "=", "R">>, S("c", "8"), "r"),
       Promote(<<"b", "x", "c", "8", "=", "B">>, S("c", "8"), "b"),
       Promote(<<"b", "x", "c", "8", "=", "N">>, S("c", "8"), "n"),
       Mv(<<"B", "d", "7">>, S("e", "6"), S("d", "7")),
       Mv(<<"B", "x", "c", "8">>, S("e", "6"), S("c", "8")),
       Mv(<<"B", "f", "7">>, S("e", "6"), S("f", "7")),
       Mv(<<"B", "g", "8">>, S("e", "6"), S("g", "8")),
       Mv(<<"B", "f", "5">>, S("e", "6"), S("f", "5")),
       Mv(<<"B", "g", "4">>, S("e", "6"), S("g", "4")),
       Mv(<<"B", "h", "3">>, S("e", "6"), S("h", "3")),
       Mv(<<"B", "d", "5">>, S("e", "6"), S("d", "5")),
       Mv(<<"B", "c", "4">>, S("e", "6"), S("c", "4")),
       Mv(<<"B", "b", "3">>, S("e", "6"), S("b", "3")),
       Mv(<<"B", "a", "2">>, S("e", "6"), S("a", "2")),
       Mv(<<"K", "a", "2">>, S("a", "1"), S("a", "2")),
       Mv(<<"K", "b", "2">>, S("a", "1"), S("b", "2")),
       Mv(<<"K", "b", "1">>, S("a", "1"), S("b", "1"))>>

\* the position after 1.f3 e5 2.g4, Black to move: the queen mates on h4
AfterG4Moves ==
  <<Mv(<<"N", "c", "6">>, S("b", "8"), S("c", "6")),
    Mv(<<"N", "a", "6">>, S("b", "8"), S("a", "6")),
    Mv(<<"Q", "e", "7">>, S("d", "8"), S("e", "7")),
    Mv(<<"Q", "f", "6">>, S("d", "8"), S("f", "6")),
    Mv(<<"Q", "g", "5">>, S("d", "8"), S("g", "5")),
    Mv(<<"Q", "h", "4", "#">>, S("d", "8"), S("h", "4")),
    Mv(<<"K", "e", "7">>, S("e", "8"), S("e", "7")),
    Mv(<<"B", "e", "7">>, S("f", "8"), S("e", "7")),
    Mv(<<"B", "d", "6">>, S("f", "8"), S("d", "6")),
    Mv(<<"B", "c", "5">>, S("f", "8"), S("c", "5")),
    Mv(<<"B", "b", "4">>, S("f", "8"), S("b", "4")),
    Mv(<<"B", "a", "3">>, S("f", "8"), S("a", "3")),
    Mv(<<"N", "h", "6">>, S("g", "8"), S("h", "6")),
    Mv(<<"N", "f", "6">>, S("g", "8"), S("f", "6")),
    Mv(<<"N", "e", "7">>, S("g", "8"), S("e", "7")),
    Mv(<<"a", "6">>, S("a", "7"), S("a", "6")), Mv(<<"a", "5">>, S("a", "7"), S("a", "5")),
    Mv(<<"b", "6">>, S("b", "7"), S("b", "6")), Mv(<<"b", "5">>, S("b", "7"), S("b", "5")),
    Mv(<<"c", "6">>, S("c", "7"), S("c", "6")), Mv(<<"c", "5">>, S("c", "7"), S("c", "5")),
    Mv(<<"d", "6">>, S("d", "7"), S("d", "6")), Mv(<<"d", "5">>, S("d", "7"), S("d", "5")),
    Mv(<<"f", "6">>, S("f", "7"), S("f", "6")), Mv(<<"f", "5">>, S("f", "7"), S("f", "5")),
    Mv(<<"g", "6">>, S("g", "7"), S("g", "6")), Mv(<<"g", "5">>, S("g", "7"), S("g", "5")),
    Mv(<<"h", "6">>, S("h", "7"), S("h", "6")), Mv(<<"h", "5">>, S("h", "7"), S("h", "5")),
    Mv(<<"e", "4">>, S("e", "5"), S("e", "4"))>>

\* White Ka1, Black Kh8 b2, White to move: the king is in check by the pawn
\* and may take it
KingTakesPawnMoves ==
  <<Mv(<<"K", "a", "2">>, S("a", "1"), S("a", "2")),
    Mv(<<"K", "x", "b", "2">>, S("a", "1"), S("b", "2")),
    Mv(<<"K", "b", "1">>, S("a", "1"), S("b", "1"))>>

\* White Ka1 h2, Black Kh8 h3, White to move: the pawn is blocked
BlockedPawnMoves ==
  <<Mv(<<"K", "a", "2">>, S("a", "1"), S("a", "2")),
    Mv(<<"K", "b", "2">>, S("a", "1"), S("b", "2")),
    Mv(<<"K", "b", "1">>, S("a", "1"), S("b", "1"))>>

Positions ==
  {OpeningMoves, KnightAndPawnMoves, BishopAndPawnMoves, KingAndKnightMoves, AfterE4Moves,
   CheckmatedMoves, PromotionMoves, AfterG4Moves, KingTakesPawnMoves, BlockedPawnMoves}

\* a response text that ends with the decision line naming tok
Decision(tok) == <<Marker, " ">> \o tok

tQxz9 == <<"Q", "x", "z", "9">>
tNe5 == <<"N", "e", "5">>
tE5 == <<"e", "5">>
tB5 == <<"b", "5">>
tE2E4 == <<"e", "2", "e", "4">>
tGameOver == <<"[", "G", "a", "m", "e", " ", "O", "v", "e", "r", "]">>
tNoDraw == <<"e", "4", "\n", "N", "o", " ", "d", "r", "a", "w">>
tIPlayE4 == <<"I", " ", "p", "l", "a", "y", " ", "e", "4">>
tHmm == <<"h", "m", "m">>
\* reasoning that names other moves before the decision line
tNf6OrE2E4 == <<"N", "f", "6", " ", "o", "r", " ", "e", "2", "e", "4", "?", "\n">>
tD5Then == <<"d", "5", " ", "O", "-", "O", " ">>
\* a capture on c8 written with a lower-case first letter
tBxc8 == <<"b", "x", "c", "8">>
\* the queen's move to h4 written without a check or mate mark
tQh4 == <<"Q", "h", "4">>

\* the response texts the provider may stream for a position: a decision
\* line naming a legal move (as enumerated, in lower case, or the first one
\* in long notation), naming an
\* illegal or malformed move, naming a bare square or a castling, texts
\* without the marker, a decision followed by further prose, and decisions
\* (of a legal or of a malformed move) preceded by reasoning that names
\* other moves; nothing is streamed for a
\* position without a legal move
ResponseTexts(moves) ==
  IF moves = <<>> THEN {<<>>}
  ELSE {Decision(m.san) : m \in Range(moves)}
    \cup {<<MarkerLower, " ">> \o ToLower(m.san) : m \in {moves[1], moves[Len(moves)]}}
    \cup {Decision(t) : t \in {tQxz9, tNe5, tE5, tB5, tE2E4, CastleShort, tGameOver, tNoDraw,
                               tBxc8, tQh4}}
    \cup {Decision(moves[1].lan)}
    \cup {tIPlayE4, tE2E4, tHmm}
    \cup {tNf6OrE2E4 \o Decision(tE5), tD5Then \o Decision(tE5), tNf6OrE2E4 \o Decision(tQxz9)}

\* the turn before agent.getMove is called
IdleOutcome ==
  [phase |-> "idle", handler |-> "none", tok |-> NoMove, move |-> NoMove,
   selected |-> NoMove, error |-> FALSE, via |-> "none", called |-> FALSE]

\* ------------------------------------------------------------------------
\* Session state (ChessGame.tsx, useChessGame.ts, useAIThinking)
\* ------------------------------------------------------------------------
VARIABLES
  game,                 \* useState(new Chess()): the current Position
  gameHistory,          \* useState<string[]>([]): notations played
  currentPlayer,        \* 'white' | 'black'
  isGameRunning,        \* running flag
  isAiThinking,         \* AI-thinking indicator
  whiteThoughts,        \* committed transcript text of white (chunks)
  blackThoughts,        \* committed transcript text of black
  whiteCurrentThought,  \* in-flight chunk of white
  blackCurrentThought,  \* in-flight chunk of black
  apiKeys,              \* TRUE when the credential of the seats' provider is set
  whitePlayer,          \* PlayerConfig.type of the white seat
  blackPlayer,          \* PlayerConfig.type of the black seat
  toggleEnv,            \* render values captured by the memoized toggleGame
  moveEnv,              \* render values captured by the memoized makeMove
  timers,               \* pending setTimeout callbacks
  requests,             \* AI requests awaiting agent.getMove
  nextId,               \* next timer / request identifier
  configCount,          \* seat / credential changes made so far
  rText,                \* response text under resolution (SpecResolve only)
  rMoves,               \* legal-move list under resolution (SpecResolve only)
  rOut,                 \* outcome of the resolved turn (SpecResolve only)
  submitted,            \* the last click on the board or on Undo (SpecBoard only)
  shouldMakeMove        \* the handler's shouldMakeMove prop (SpecHandler only)

sessionVars == <<game, gameHistory, currentPlayer, isGameRunning>>
thoughtVars == <<whiteThoughts, blackThoughts, whiteCurrentThought, blackCurrentThought>>
configVars == <<apiKeys, whitePlayer, blackPlayer>>
resolveVars == <<rText, rMoves, rOut>>
idleVars == <<configCount, rText, rMoves, rOut, submitted, shouldMakeMove>>
vars == <<game, gameHistory, currentPlayer, isGameRunning, isAiThinking,
          whiteThoughts, blackThoughts, whiteCurrentThought, blackCurrentThought,
          apiKeys, whitePlayer, blackPlayer, toggleEnv, moveEnv, timers, requests,
          nextId, configCount, rText, rMoves, rOut, submitted, shouldMakeMove>>

\* the values of one render that the functions defined in it close over
Snapshot(running, keys, white, black, wcur, bcur) ==
  [running |-> running, keys |-> keys, white |-> white, black |-> black,
   wcur |-> wcur, bcur |-> bcur]

\* useCallback(..., [game, whitePlayer, blackPlayer]) for toggleGame and
\* useCallback(..., [game, whitePlayer, blackPlayer, isGameRunning]) for
\* makeMove: after the state updates of a handler the component renders again
\* and a memoized callback is replaced only when one of its dependencies
\* changed; setGame always stores a new object (gameSet).
Render(gameSet) ==
  LET now == Snapshot(isGameRunning', apiKeys', whitePlayer', blackPlayer',
                      whiteCurrentThought', blackCurrentThought')
      seatsChanged == whitePlayer' # whitePlayer \/ blackPlayer' # blackPlayer
  IN /\ toggleEnv' = IF gameSet \/ seatsChanged THEN now ELSE toggleEnv
     /\ moveEnv' = IF gameSet \/ seatsChanged \/ isGameRunning' # isGameRunning
                   THEN now ELSE moveEnv

SeatType(env, turn) == IF turn = "w" THEN env.white ELSE env.black

\* createAgent: an agent exists for an AI seat whose provider credential is set
createAgent(cfgType, keys) == cfgType = "ai" /\ keys

\* a setTimeout(() => makeAiMove(currentGame, playerConfig), delay) callback
\* of the render env; sinceReset / sinceStop record commands issued after it
\* was scheduled
Timer(id, env, pos, cfg) ==
  [id |-> id, env |-> env, game |-> pos, cfg |-> cfg, sinceReset |-> FALSE]

\* no square of the board has been clicked yet
NoSubmission == [move |-> NoMove, disabled |-> FALSE]

\* The session before the game is first started: the seats and the credential
\* are those the user configured on the stopped, empty session (toggleGame and
\* makeMove hold the credential of the render of the last seat selection).
InitSession ==
  /\ game = StartPos
  /\ gameHistory = <<>>
  /\ currentPlayer = "white"
  /\ isGameRunning = FALSE
  /\ isAiThinking = FALSE
  /\ whiteThoughts = <<>>
  /\ blackThoughts = <<>>
  /\ whiteCurrentThought = <<>>
  /\ blackCurrentThought = <<>>
  /\ apiKeys \in BOOLEAN
  /\ whitePlayer \in {"human", "ai"}
  /\ blackPlayer \in {"human", "ai"}
  /\ \E k \in BOOLEAN :
       toggleEnv = Snapshot(FALSE, k, whitePlayer, blackPlayer, <<>>, <<>>)
  /\ moveEnv = toggleEnv
  /\ timers = {}
  /\ requests = {}
  /\ nextId = 1
  /\ configCount = 0
  /\ rText = <<>>
  /\ rMoves = <<>>
  /\ rOut = IdleOutcome
  /\ submitted = NoSubmission
  /\ shouldMakeMove = FALSE

Init == InitSession

\* ------------------------------------------------------------------------
\* Transcript entries, requests, response tokens
\* ------------------------------------------------------------------------
\* the n-th streamed chunk of request req
ChunkOf(req, n) == [kind |-> "chunk", req |-> req, n |-> n]
\* onThought('Error occurred while thinking. Using fallback move...')
AgentErrorNote(req) == [kind |-> "agentError", req |-> req, n |-> 0]
\* the "[Error: ...]" annotation written by the session
ErrorNote(req) == [kind |-> "error", req |-> req, n |-> 0]

\* an AI turn between the call of agent.getMove and its result
Request(t) ==
  [id |-> t.id, env |-> t.env, game |-> t.game, cfg |-> t.cfg,
   isWhite |-> (Turn(t.game) = "w"), sent |-> 0,
   sinceReset |-> t.sinceReset, sinceStop |-> FALSE]

\* a well-formed token that is no legal move in the fragment
IllegalTok == <<"Q", "x", "a", "8">>

\* the tokens agent.getMove may return for a position: a legal notation, its
\* lower-case spelling, an illegal move, or null
AiTokens(pos) ==
  {m.san : m \in Range(LegalMoves(pos))}
    \cup {ToLower(m.san) : m \in Range(LegalMoves(pos))}
    \cup {IllegalTok, NoMove}

\* new Chess(fen): a chess.js object built from a FEN has an empty undo stack
ChessFromFen(pos) == [line |-> pos, undoable |-> 0]

\* chess.js undo(): takes back the last move of the object's own undo stack
\* and does nothing when that stack is empty
ChessUndo(obj) ==
  IF obj.undoable = 0 THEN obj
  ELSE [line |-> SubSeq(obj.line, 1, Len(obj.line) - 1), undoable |-> obj.undoable - 1]

\* prev.slice(0, -2)
SliceOffTwo(h) == SubSeq(h, 1, IF Len(h) >= 2 THEN Len(h) - 2 ELSE 0)

\* ------------------------------------------------------------------------
\* ChessGame.tsx: commands
\* ------------------------------------------------------------------------
\* a toggle that takes the last move back when it stops the game
toggleGameRollback ==
  LET newValue == ~isGameRunning
      cfg == IF Turn(game) = "w" THEN whitePlayer ELSE blackPlayer
      schedule == newValue /\ ~IsGameOver(game) /\ cfg = "ai"
      kept == IF newValue \/ game = <<>> THEN Len(game) ELSE Len(game) - 1
  IN /\ schedule => nextId <= MaxTimers
     /\ isGameRunning' = newValue
     /\ game' = SubSeq(game, 1, kept)
     /\ gameHistory' = IF kept = Len(game) THEN gameHistory
                       ELSE SubSeq(gameHistory, 1, Len(gameHistory) - 1)
     /\ currentPlayer' = ColorOf(Turn(game'))
     /\ timers' = IF schedule THEN timers \cup {Timer(nextId, toggleEnv, game, cfg)}
                  ELSE timers
     /\ nextId' = IF schedule THEN nextId + 1 ELSE nextId
     /\ requests' = IF newValue THEN requests
                    ELSE {[r EXCEPT !.sinceStop = TRUE] : r \in requests}
     /\ UNCHANGED <<isAiThinking, thoughtVars, configVars, idleVars>>
     /\ Render(kept # Len(game))

\* toggleGame (the Start/Stop button is never disabled)
toggleGame ==
  LET newValue == ~isGameRunning
      cfg == IF Turn(game) = "w" THEN whitePlayer ELSE blackPlayer
      schedule == newValue /\ ~IsGameOver(game) /\ cfg = "ai"
  IN /\ schedule => nextId <= MaxTimers
     /\ isGameRunning' = newValue
     /\ timers' = IF schedule THEN timers \cup {Timer(nextId, toggleEnv, game, cfg)}
                  ELSE timers
     /\ nextId' = IF schedule THEN nextId + 1 ELSE nextId
     /\ requests' = IF newValue THEN requests
                    ELSE {[r EXCEPT !.sinceStop = TRUE] : r \in requests}
     /\ UNCHANGED <<game, gameHistory, currentPlayer, isAiThinking, thoughtVars,
                    configVars, idleVars>>
     /\ Render(FALSE)

\* the board enabled whenever the game is running
canMakeMoveRunning == isGameRunning

\* canMakeMove: the board accepts clicks only for a human seat to move, while
\* no AI is thinking and the game is running
canMakeMove ==
  /\ (IF currentPlayer = "white" THEN whitePlayer ELSE blackPlayer) = "human"
  /\ ~isAiThinking
  /\ isGameRunning

\* an origin+destination string that names no legal move of the fragment
IllegalLan == <<"e", "2", "e", "5">>

\* the strings ChessBoard.handleSquareClick passes to onMove: the
\* origin+destination of a move the oracle lists for the clicked squares
BoardInputs(pos) ==
  {LegalMoves(pos)[i].lan : i \in 1..Len(LegalMoves(pos)) \cap 1..2}

\* the strings makeMove may be called with: those of the board, or a string
\* that denotes no legal move
HumanInputs(pos) == BoardInputs(pos) \cup {IllegalLan}

\* makeMove(move), called by the enabled board (ChessBoard is disabled unless
\* canMakeMove): gameCopy.move(move) returns null or throws for a string that
\* denotes no legal move, and nothing is updated then
makeMove(move) ==
  LET moves == LegalMoves(game)
      k == ChessJsMove(moves, move)
      gameCopy == ApplyMove(game, moves[k])
      nextCfg == IF Turn(gameCopy) = "w" THEN whitePlayer ELSE blackPlayer
      schedule == ~IsGameOver(gameCopy) /\ isGameRunning /\ nextCfg = "ai"
  IN /\ canMakeMove
     /\ isGameRunning
     /\ UNCHANGED <<isGameRunning, isAiThinking, thoughtVars, configVars, requests,
                    configCount, resolveVars, shouldMakeMove>>
     /\ IF k # 0
        THEN /\ Len(game) < MaxPly /\ Len(gameHistory) < MaxHist
             /\ schedule => nextId <= MaxTimers
             /\ game' = gameCopy
             /\ gameHistory' = Append(gameHistory, moves[k].san)
             /\ currentPlayer' = ColorOf(Turn(gameCopy))
             /\ timers' = IF schedule
                          THEN timers \cup {Timer(nextId, moveEnv, gameCopy, nextCfg)}
                          ELSE timers
             /\ nextId' = IF schedule THEN nextId + 1 ELSE nextId
             /\ Render(TRUE)
        ELSE UNCHANGED <<game, gameHistory, currentPlayer, timers, nextId,
                         toggleEnv, moveEnv>>

\* resetGame of useChessGame alone: the transcripts and the AI-thinking
\* indicator are left as they are
resetGameSessionOnly ==
  /\ ~isAiThinking
  /\ game' = StartPos
  /\ gameHistory' = <<>>
  /\ currentPlayer' = "white"
  /\ isGameRunning' = FALSE
  /\ timers' = {[t EXCEPT !.sinceReset = TRUE] : t \in timers}
  /\ requests' = {[r EXCEPT !.sinceReset = TRUE] : r \in requests}
  /\ UNCHANGED <<isAiThinking, thoughtVars, configVars, nextId, idleVars>>
  /\ Render(TRUE)

\* resetGame (New Game is disabled while isAiThinking)
resetGame ==
  /\ ~isAiThinking
  /\ game' = StartPos
  /\ gameHistory' = <<>>
  /\ currentPlayer' = "white"
  /\ whiteThoughts' = <<>>
  /\ blackThoughts' = <<>>
  /\ whiteCurrentThought' = <<>>
  /\ blackCurrentThought' = <<>>
  /\ isAiThinking' = FALSE
  /\ isGameRunning' = FALSE
  /\ timers' = {[t EXCEPT !.sinceReset = TRUE] : t \in timers}
  /\ requests' = {[r EXCEPT !.sinceReset = TRUE] : r \in requests}
  /\ UNCHANGED <<configVars, nextId, idleVars>>
  /\ Render(TRUE)

\* undoMove (Undo is disabled while isAiThinking, on an empty history and
\* while the game is stopped)
undoMove ==
  LET copy1 == ChessUndo(ChessFromFen(game))
      gameCopy == IF Len(gameHistory) > 1 THEN ChessUndo(copy1) ELSE copy1
  IN /\ ~isAiThinking /\ Len(gameHistory) > 0 /\ isGameRunning
     /\ isGameRunning
     /\ game' = gameCopy.line
     /\ gameHistory' = SliceOffTwo(gameHistory)
     /\ currentPlayer' = ColorOf(Turn(gameCopy.line))
     /\ UNCHANGED <<isGameRunning, isAiThinking, thoughtVars, configVars, timers,
                    requests, nextId, configCount, resolveVars, shouldMakeMove>>
     /\ Render(TRUE)

\* seats and credentials change between turns only (a change while a turn is
\* scheduled or in flight is left undefined by the design)
BetweenTurns == timers = {} /\ requests = {}

\* setWhitePlayer / setBlackPlayer: the seat's type or provider is selected
\* (every selection stores a new config object)
setPlayer(color, type) ==
  /\ BetweenTurns /\ configCount < MaxConfig
  /\ configCount' = configCount + 1
  /\ whitePlayer' = IF color = "white" THEN type ELSE whitePlayer
  /\ blackPlayer' = IF color = "black" THEN type ELSE blackPlayer
  /\ UNCHANGED <<game, gameHistory, currentPlayer, isGameRunning, isAiThinking,
                 thoughtVars, apiKeys, timers, requests, nextId, resolveVars,
                 submitted, shouldMakeMove>>
  /\ Render(TRUE)

\* setApiKeys: the credential is entered or cleared
setApiKeys(present) ==
  /\ BetweenTurns /\ configCount < MaxConfig
  /\ configCount' = configCount + 1
  /\ apiKeys # present
  /\ apiKeys' = present
  /\ UNCHANGED <<game, gameHistory, currentPlayer, isGameRunning, isAiThinking,
                 thoughtVars, whitePlayer, blackPlayer, timers, requests, nextId,
                 resolveVars, submitted, shouldMakeMove>>
  /\ Render(FALSE)

\* ------------------------------------------------------------------------
\* ChessGame.tsx: makeAiMove (timer callback, streamed chunks, continuation)
\* ------------------------------------------------------------------------
\* the transcript updates of one color
SetThoughts(isWhite, committed, current) ==
  /\ whiteThoughts' = IF isWhite THEN committed ELSE whiteThoughts
  /\ whiteCurrentThought' = IF isWhite THEN current ELSE whiteCurrentThought
  /\ blackThoughts' = IF isWhite THEN blackThoughts ELSE committed
  /\ blackCurrentThought' = IF isWhite THEN blackCurrentThought ELSE current

ThoughtsOf(isWhite) == IF isWhite THEN whiteThoughts ELSE blackThoughts

\* makeAiMove up to the call of agent.getMove: the running flag and the
\* credential are those of the render the callback was created in
makeAiMoveStart(t) ==
  /\ t \in timers
  /\ timers' = timers \ {t}
  /\ IF t.env.running /\ createAgent(t.cfg, t.env.keys)
     THEN /\ isAiThinking' = TRUE
          /\ SetThoughts(Turn(t.game) = "w", <<>>, <<>>)
          /\ requests' = requests \cup {Request(t)}
     ELSE UNCHANGED <<isAiThinking, thoughtVars, requests>>
  /\ UNCHANGED <<sessionVars, configVars, nextId, idleVars>>
  /\ Render(FALSE)

\* the onThought callback of makeAiMove: one streamed chunk
onThought(r) ==
  /\ r \in requests
  /\ r.sent < MaxChunks
  /\ ~IsGameOver(r.game)
  /\ SetThoughts(r.isWhite, Append(ThoughtsOf(r.isWhite), ChunkOf(r.id, r.sent + 1)),
                 <<ChunkOf(r.id, r.sent + 1)>>)
  /\ requests' = (requests \ {r}) \cup {[r EXCEPT !.sent = r.sent + 1]}
  /\ UNCHANGED <<sessionVars, isAiThinking, configVars, timers, nextId,
                 idleVars>>
  /\ Render(FALSE)

\* possibleMoves.find(...) of ChessGame.makeAiMove
MatchSimple(moves, aiMove) ==
  FindIndex(moves, LAMBDA m :
    \/ m.san = aiMove
    \/ m.lan = aiMove
    \/ (m.from \o m.to) = aiMove
    \/ ReplaceFirst(m.san, {"+", "#"}) = ReplaceFirst(aiMove, {"+", "#"})
    \/ ToLower(m.san) = ToLower(aiMove))

\* the move ChessGame.makeAiMove executes for the token aiMove: the direct
\* move, else the matching move; 0 when neither exists
ResolveSimple(moves, aiMove) ==
  IF aiMove = NoMove THEN 0
  ELSE IF ChessJsMove(moves, aiMove) # 0 THEN ChessJsMove(moves, aiMove)
  ELSE MatchSimple(moves, aiMove)

\* the error annotation: setter(thoughts + "[Error: ...]") with the in-flight
\* chunk of the render the callback was created in
AnnotateError(r) ==
  LET captured == IF r.isWhite THEN r.env.wcur ELSE r.env.bcur
  IN SetThoughts(r.isWhite, ThoughtsOf(r.isWhite), Append(captured, ErrorNote(r.id)))

\* makeAiMove after agent.getMove returned aiMove
makeAiMoveDone(r, aiMove) ==
  LET moves == LegalMoves(r.game)
      k == ResolveSimple(moves, aiMove)
      freshGame == ApplyMove(r.game, moves[k])
      nextCfg == SeatType(r.env, Turn(freshGame))
      schedule == k # 0 /\ ~IsGameOver(freshGame) /\ r.env.running /\ nextCfg = "ai"
  IN /\ r \in requests
     /\ aiMove \in AiTokens(r.game)
     /\ requests' = requests \ {r}
     /\ isAiThinking' = FALSE
     /\ IF k # 0
        THEN /\ Len(r.game) < MaxPly /\ Len(gameHistory) < MaxHist
             /\ schedule => nextId <= MaxTimers
             /\ game' = freshGame
             /\ gameHistory' = Append(gameHistory, moves[k].san)
             /\ currentPlayer' = ColorOf(Turn(freshGame))
             /\ timers' = IF schedule
                          THEN timers \cup {Timer(nextId, r.env, freshGame, nextCfg)}
                          ELSE timers
             /\ nextId' = IF schedule THEN nextId + 1 ELSE nextId
             /\ UNCHANGED thoughtVars
        ELSE /\ AnnotateError(r)
             /\ UNCHANGED <<game, gameHistory, currentPlayer, timers, nextId>>
     /\ UNCHANGED <<isGameRunning, configVars, idleVars>>
     /\ Render(k # 0)

\* a catch block after which the request is still in flight
makeAiMoveFailedInFlight(r) ==
  /\ r \in requests
  /\ isAiThinking' = FALSE
  /\ LET captured == IF r.isWhite THEN r.env.wcur ELSE r.env.bcur
     IN SetThoughts(r.isWhite, Append(ThoughtsOf(r.isWhite), AgentErrorNote(r.id)),
                    Append(captured, ErrorNote(r.id)))
  /\ UNCHANGED <<sessionVars, configVars, timers, requests, nextId, idleVars>>
  /\ Render(FALSE)

\* a failure handler that schedules the turn again
makeAiMoveFailedRetry(r) ==
  /\ r \in requests
  /\ nextId <= MaxTimers
  /\ requests' = requests \ {r}
  /\ isAiThinking' = FALSE
  /\ LET captured == IF r.isWhite THEN r.env.wcur ELSE r.env.bcur
     IN SetThoughts(r.isWhite, Append(ThoughtsOf(r.isWhite), AgentErrorNote(r.id)),
                    Append(captured, ErrorNote(r.id)))
  /\ timers' = timers \cup {Timer(nextId, r.env, r.game, r.cfg)}
  /\ nextId' = nextId + 1
  /\ UNCHANGED <<sessionVars, configVars, idleVars>>
  /\ Render(FALSE)

\* agent.getMove caught a provider error: it reports the error through
\* onThought and returns null, which makeAiMove annotates
makeAiMoveFailed(r) ==
  /\ r \in requests
  /\ requests' = requests \ {r}
  /\ isAiThinking' = FALSE
  /\ LET captured == IF r.isWhite THEN r.env.wcur ELSE r.env.bcur
     IN SetThoughts(r.isWhite, Append(ThoughtsOf(r.isWhite), AgentErrorNote(r.id)),
                    Append(captured, ErrorNote(r.id)))
  /\ UNCHANGED <<sessionVars, configVars, timers, nextId, idleVars>>
  /\ Render(FALSE)

Next ==
  \/ toggleGame
  \/ \E move \in BoardInputs(game) : makeMove(move) /\ UNCHANGED submitted
  \/ resetGame
  \/ undoMove /\ UNCHANGED submitted
  \/ \E c \in {"white", "black"}, ty \in {"human", "ai"} : setPlayer(c, ty)
  \/ \E b \in BOOLEAN : setApiKeys(b)
  \/ \E t \in timers : makeAiMoveStart(t)
  \/ \E r \in requests : onThought(r)
  \/ \E r \in requests : \E tok \in AiTokens(r.game) : makeAiMoveDone(r, tok)
  \/ \E r \in requests : makeAiMoveFailed(r)

Spec == Init /\ [][Next]_vars

\* ------------------------------------------------------------------------
\* SpecBoard: the session with the clicks on the board recorded
\* ------------------------------------------------------------------------
\* a human plays White, the credential is set
InitBoard ==
  /\ InitSession
  /\ whitePlayer = "human"
  /\ apiKeys
  /\ toggleEnv.keys

\* ChessBoard.handleSquareClick for the click that completes the string move:
\* a disabled board ignores the click, an enabled one calls onMove = makeMove
handleSquareClick(move) ==
  /\ submitted' = [move |-> move, disabled |-> ~canMakeMove]
  /\ IF ~canMakeMove
     THEN UNCHANGED <<sessionVars, isAiThinking, thoughtVars, configVars, toggleEnv,
                      moveEnv, timers, requests, nextId, configCount, resolveVars,
                      shouldMakeMove>>
     ELSE makeMove(move)

\* the Undo Move button of GameControls
UndoCommand == <<"U", "n", "d", "o">>

\* an Undo that takes effect whether or not the game is running
handleUndoClickAnyTime ==
  LET disabled == isAiThinking \/ Len(gameHistory) = 0
      copy1 == ChessUndo(ChessFromFen(game))
      gameCopy == IF Len(gameHistory) > 1 THEN ChessUndo(copy1) ELSE copy1
  IN /\ submitted' = [move |-> UndoCommand, disabled |-> disabled]
     /\ UNCHANGED <<isGameRunning, isAiThinking, thoughtVars, configVars, timers,
                    requests, nextId, configCount, resolveVars, shouldMakeMove>>
     /\ IF disabled THEN UNCHANGED <<game, gameHistory, currentPlayer, toggleEnv, moveEnv>>
        ELSE /\ game' = gameCopy.line
             /\ gameHistory' = SliceOffTwo(gameHistory)
             /\ currentPlayer' = ColorOf(Turn(gameCopy.line))
             /\ Render(TRUE)

\* a click on the Undo button of GameControls: the button is disabled while
\* an AI is thinking, on an empty History and while the game is stopped; an
\* enabled button calls onUndo = undoMove
handleUndoClick ==
  LET disabled == isAiThinking \/ ~(Len(gameHistory) > 0 /\ isGameRunning)
  IN /\ submitted' = [move |-> UndoCommand, disabled |-> disabled]
     /\ IF disabled
        THEN UNCHANGED <<sessionVars, isAiThinking, thoughtVars, configVars, toggleEnv,
                         moveEnv, timers, requests, nextId, configCount, resolveVars,
                         shouldMakeMove>>
        ELSE undoMove

NextBoard ==
  \/ \E move \in HumanInputs(game) : handleSquareClick(move)
  \/ toggleGame
  \/ resetGame
  \/ handleUndoClick
  \/ \E t \in timers : makeAiMoveStart(t)
  \/ \E r \in requests : onThought(r)
  \/ \E r \in requests : \E tok \in AiTokens(r.game) : makeAiMoveDone(r, tok)
  \/ \E r \in requests : makeAiMoveFailed(r)

SpecBoard == InitBoard /\ [][NextBoard]_vars

\* ------------------------------------------------------------------------
\* SpecHandler: the hook-based session (useChessGame, useAIThinking,
\* useMoveHandler) with the effect-driven AIMoveHandler mounted in it
\* ------------------------------------------------------------------------
\* The component that mounts the effect-driven handler is not part of the
\* sources: the handler's props shouldMakeMove and onMoveProcessed are taken
\* to be a flag of that component and the callback that lowers it, and
\* currentPlayer to be the active color of useChessGame.

\* the "--- <COLOR> PLAYER THINKING ---" line makeAiMove writes first
Separator(req) == [kind |-> "separator", req |-> req, n |-> 0]

\* useAIThinking.updateThoughts
updateThoughts(isWhite, thought) ==
  SetThoughts(isWhite, Append(ThoughtsOf(isWhite), thought), <<thought>>)

\* useAIThinking.addErrorToThoughts of the render env: the in-flight chunk
\* of that render with the annotation appended
addErrorToThoughts(isWhite, env, req) ==
  SetThoughts(isWhite, ThoughtsOf(isWhite),
              Append(IF isWhite THEN env.wcur ELSE env.bcur, ErrorNote(req)))

\* a human plays White, Black is an AI seat, the game has not been started
InitHandler ==
  /\ InitSession
  /\ whitePlayer = "human"
  /\ blackPlayer = "ai"
  /\ toggleEnv.keys = apiKeys

\* the effect without its cleanup: an earlier timer stays pending when the
\* effect runs again
handlerEffectNoCleanup(fired) ==
  LET type == IF currentPlayer = "white" THEN whitePlayer ELSE blackPlayer
      typeNow == IF currentPlayer' = "white" THEN whitePlayer' ELSE blackPlayer'
      changed == <<shouldMakeMove', typeNow, isGameRunning', game', currentPlayer'>>
                   # <<shouldMakeMove, type, isGameRunning, game, currentPlayer>>
      cond == shouldMakeMove' /\ typeNow = "ai" /\ isGameRunning' /\ ~IsGameOver(game')
      env == Snapshot(isGameRunning', apiKeys', whitePlayer', blackPlayer',
                      whiteCurrentThought', blackCurrentThought')
  IN /\ (changed /\ cond) => nextId <= MaxTimers
     /\ timers' = IF changed /\ cond
                  THEN (timers \ fired) \cup {Timer(nextId, env, game', typeNow)}
                  ELSE timers \ fired
     /\ nextId' = IF changed /\ cond THEN nextId + 1 ELSE nextId

\* The handler's useEffect after the render that follows a step: when one of
\* its dependencies changed, the cleanup of the previous run clears the
\* pending timer, and a new timer is set if the conditions hold; fired is
\* the timer whose callback ran in this step
handlerEffect(fired) ==
  LET type == IF currentPlayer = "white" THEN whitePlayer ELSE blackPlayer
      typeNow == IF currentPlayer' = "white" THEN whitePlayer' ELSE blackPlayer'
      changed == <<shouldMakeMove', typeNow, isGameRunning', game', currentPlayer'>>
                   # <<shouldMakeMove, type, isGameRunning, game, currentPlayer>>
      cond == shouldMakeMove' /\ typeNow = "ai" /\ isGameRunning' /\ ~IsGameOver(game')
      env == Snapshot(isGameRunning', apiKeys', whitePlayer', blackPlayer',
                      whiteCurrentThought', blackCurrentThought')
  IN /\ (changed /\ cond) => nextId <= MaxTimers
     /\ timers' = IF ~changed THEN timers \ fired
                  ELSE IF cond THEN {Timer(nextId, env, game', typeNow)}
                  ELSE {}
     /\ nextId' = IF changed /\ cond THEN nextId + 1 ELSE nextId

\* toggleGame of the hook-based session: handleAiMove does nothing
hookToggleGame ==
  /\ isGameRunning' = ~isGameRunning
  /\ requests' = IF ~isGameRunning THEN requests
                 ELSE {[r EXCEPT !.sinceStop = TRUE] : r \in requests}
  /\ UNCHANGED <<game, gameHistory, currentPlayer, isAiThinking, thoughtVars,
                 configVars, toggleEnv, moveEnv, configCount, resolveVars, submitted,
                 shouldMakeMove>>
  /\ handlerEffect({})

\* useMoveHandler.makeMove, called by the enabled board
hookMakeMove(move) ==
  LET moves == LegalMoves(game)
      k == ChessJsMove(moves, move)
      gameCopy == ApplyMove(game, moves[k])
  IN /\ canMakeMove
     /\ isGameRunning
     /\ k # 0
     /\ Len(game) < MaxPly /\ Len(gameHistory) < MaxHist
     /\ game' = gameCopy
     /\ gameHistory' = Append(gameHistory, moves[k].san)
     /\ currentPlayer' = ColorOf(Turn(gameCopy))
     /\ UNCHANGED <<isGameRunning, isAiThinking, thoughtVars, configVars, requests,
                    toggleEnv, moveEnv, configCount, resolveVars, submitted,
                    shouldMakeMove>>
     /\ handlerEffect({})

\* handleResetGame: resetGame(); clearThoughts(); setIsAiThinking(false)
handleResetGame ==
  /\ ~isAiThinking
  /\ game' = StartPos
  /\ gameHistory' = <<>>
  /\ currentPlayer' = "white"
  /\ isGameRunning' = FALSE
  /\ whiteThoughts' = <<>>
  /\ blackThoughts' = <<>>
  /\ whiteCurrentThought' = <<>>
  /\ blackCurrentThought' = <<>>
  /\ isAiThinking' = FALSE
  /\ requests' = {[r EXCEPT !.sinceReset = TRUE] : r \in requests}
  /\ UNCHANGED <<configVars, toggleEnv, moveEnv, configCount, resolveVars, submitted,
                 shouldMakeMove>>
  /\ handlerEffect({})

\* useChessGame.undoMove
hookUndoMove ==
  LET copy1 == ChessUndo(ChessFromFen(game))
      gameCopy == IF Len(gameHistory) > 1 THEN ChessUndo(copy1) ELSE copy1
  IN /\ ~isAiThinking /\ Len(gameHistory) > 0 /\ isGameRunning
     /\ game' = gameCopy.line
     /\ gameHistory' = SliceOffTwo(gameHistory)
     /\ currentPlayer' = ColorOf(Turn(gameCopy.line))
     /\ UNCHANGED <<isGameRunning, isAiThinking, thoughtVars, configVars, requests,
                    toggleEnv, moveEnv, configCount, resolveVars, submitted,
                    shouldMakeMove>>
     /\ handlerEffect({})

\* the mounting component asks for an AI move
requestAiMove ==
  /\ ~shouldMakeMove
  /\ shouldMakeMove' = TRUE
  /\ UNCHANGED <<sessionVars, isAiThinking, thoughtVars, configVars, requests,
                 toggleEnv, moveEnv, configCount, resolveVars, submitted>>
  /\ handlerEffect({})

\* the handler's makeAiMove up to the call of agent.getMove (the effect sets
\* the timer only for a running game that is not over)
effectMakeAiMoveStart(t) ==
  LET isWhite == Turn(t.game) = "w"
  IN /\ t \in timers
     /\ IF createAgent(t.cfg, t.env.keys)
        THEN /\ isAiThinking' = TRUE
             /\ updateThoughts(isWhite, Separator(t.id))
             /\ requests' = requests \cup {Request(t)}
             /\ UNCHANGED shouldMakeMove
        ELSE /\ addErrorToThoughts(isWhite, t.env, t.id)
             /\ shouldMakeMove' = FALSE
             /\ UNCHANGED <<isAiThinking, requests>>
     /\ UNCHANGED <<sessionVars, configVars, toggleEnv, moveEnv, configCount,
                    resolveVars, submitted>>
     /\ handlerEffect({t})

\* the handler's makeAiMove after agent.getMove returned aiMove
effectMakeAiMoveDone(r, aiMove, rnd) ==
  LET out == HandlerOutcome(LegalMoves(r.game), aiMove, rnd)
      freshGame == Append(r.game, out.move)
  IN /\ r \in requests
     /\ requests' = requests \ {r}
     /\ isAiThinking' = FALSE
     /\ shouldMakeMove' = FALSE
     /\ IF out.move # NoMove
        THEN /\ Len(r.game) < MaxPly /\ Len(gameHistory) < MaxHist
             /\ game' = freshGame
             /\ gameHistory' = Append(gameHistory, out.move)
             /\ currentPlayer' = ColorOf(Turn(freshGame))
        ELSE UNCHANGED <<game, gameHistory, currentPlayer>>
     /\ IF out.error THEN addErrorToThoughts(r.isWhite, r.env, r.id)
        ELSE UNCHANGED thoughtVars
     /\ UNCHANGED <<isGameRunning, configVars, toggleEnv, moveEnv, configCount,
                    resolveVars, submitted>>
     /\ handlerEffect({})

\* agent.getMove caught a provider error: it reports the error through
\* onThought and returns null, which the handler annotates
effectMakeAiMoveFailed(r) ==
  /\ r \in requests
  /\ requests' = requests \ {r}
  /\ isAiThinking' = FALSE
  /\ shouldMakeMove' = FALSE
  /\ SetThoughts(r.isWhite, Append(ThoughtsOf(r.isWhite), AgentErrorNote(r.id)),
                 Append(IF r.isWhite THEN r.env.wcur ELSE r.env.bcur, ErrorNote(r.id)))
  /\ UNCHANGED <<sessionVars, configVars, toggleEnv, moveEnv, configCount,
                 resolveVars, submitted>>
  /\ handlerEffect({})

NextHandler ==
  \/ hookToggleGame
  \/ \E move \in BoardInputs(game) : hookMakeMove(move)
  \/ handleResetGame
  \/ hookUndoMove
  \/ requestAiMove
  \/ \E t \in timers : effectMakeAiMoveStart(t)
  \/ \E r \in requests : onThought(r)
  \/ \E r \in requests : \E tok \in AiTokens(r.game) :
       \E rnd \in RandomIndexes(Len(LegalMoves(r.game))) : effectMakeAiMoveDone(r, tok, rnd)
  \/ \E r \in requests : effectMakeAiMoveFailed(r)

SpecHandler == InitHandler /\ [][NextHandler]_vars

\* ------------------------------------------------------------------------
\* SpecResolve: one AI turn from the streamed text to the move played
\* ------------------------------------------------------------------------
\* a freshly constructed session (white human, black AI, no credential) and
\* a turn for one of the positions with one of the response texts
InitResolve ==
  /\ game = StartPos
  /\ gameHistory = <<>>
  /\ currentPlayer = "white"
  /\ isGameRunning = FALSE
  /\ isAiThinking = FALSE
  /\ whiteThoughts = <<>>
  /\ blackThoughts = <<>>
  /\ whiteCurrentThought = <<>>
  /\ blackCurrentThought = <<>>
  /\ apiKeys = FALSE
  /\ whitePlayer = "human"
  /\ blackPlayer = "ai"
  /\ toggleEnv = Snapshot(FALSE, FALSE, "human", "ai", <<>>, <<>>)
  /\ moveEnv = toggleEnv
  /\ timers = {}
  /\ requests = {}
  /\ nextId = 1
  /\ configCount = 0
  /\ rMoves \in Positions
  /\ rText \in ResponseTexts(rMoves)
  /\ rOut = IdleOutcome
  /\ submitted = NoSubmission
  /\ shouldMakeMove = FALSE

pipelineFrame ==
  UNCHANGED <<sessionVars, isAiThinking, thoughtVars, configVars, toggleEnv, moveEnv,
              timers, requests, nextId, configCount, rText, rMoves, submitted,
              shouldMakeMove>>

\* every position is sent to the provider
ProviderCalledAlways(moves) == TRUE

\* agent.getMove sends the position to the provider unless it has no legal
\* move
ProviderCalled(moves) == moves # <<>>

\* the handlers' makeAiMove called on a finished game: it returns before an
\* agent is created (a position without a legal move is a finished game)
handlerGameOver ==
  /\ rOut.phase = "idle"
  /\ rMoves = <<>>
  /\ \E h \in {"effect", "earlier"} :
       rOut' = Outcome(h, NoMove, NoMove, NoMove, FALSE, "gameOver")
  /\ pipelineFrame

\* agent.getMove resolves with the token extracted from the streamed text
\* (null at once when the position has no legal move)
getMove ==
  /\ rOut.phase = "idle"
  /\ rOut' = [rOut EXCEPT !.phase = "token",
                          !.tok = IF ProviderCalled(rMoves) THEN ExtractMove(rText)
                                  ELSE NoMove,
                          !.called = ProviderCalled(rMoves)]
  /\ pipelineFrame

\* the continuation of AIMoveHandler.makeAiMove
handlerMakeAiMove ==
  /\ rOut.phase = "token"
  /\ \E rnd \in RandomIndexes(Len(rMoves)) :
       rOut' = [HandlerOutcome(rMoves, rOut.tok, rnd) EXCEPT !.called = rOut.called]
  /\ pipelineFrame

\* the continuation of the earlier handler's makeAiMove
earlierMakeAiMove ==
  /\ rOut.phase = "token"
  /\ \E rnd \in RandomIndexes(Len(rMoves)) :
       rOut' = [EarlierOutcome(rMoves, rOut.tok, rnd) EXCEPT !.called = rOut.called]
  /\ pipelineFrame

\* the continuation of ChessGame.makeAiMove
sessionMakeAiMove ==
  LET k == ResolveSimple(rMoves, rOut.tok)
      out == IF k # 0
             THEN Outcome("session", rOut.tok, rMoves[k].san, NoMove, FALSE, "direct")
             ELSE Outcome("session", rOut.tok, NoMove, NoMove, TRUE, "none")
  IN /\ rOut.phase = "token"
     /\ rOut' = [out EXCEPT !.called = rOut.called]
     /\ pipelineFrame

NextResolve ==
  \/ handlerGameOver
  \/ getMove
  \/ handlerMakeAiMove
  \/ earlierMakeAiMove
  \/ sessionMakeAiMove

SpecResolve == InitResolve /\ [][NextResolve]_vars

\* ------------------------------------------------------------------------
\* Session claims (ChessGame.tsx)
\* ------------------------------------------------------------------------
\* the request with identifier id received its result in this step
Delivered(id) ==
  /\ \E r \in requests : r.id = id
  /\ \A q \in requests' : q.id # id

\* the Position obtained by replaying the notations h from pos through the oracle
RECURSIVE Replay(_, _)
Replay(pos, h) ==
  IF h = <<>> THEN pos
  ELSE LET moves == LegalMoves(pos)
           k == ChessJsMove(moves, Head(h))
       IN IF k = 0 THEN pos ELSE Replay(ApplyMove(pos, moves[k]), Tail(h))

\* C1: in every reachable state the length of History is even if and only
\* if it is White's turn in the current Position.
ParityInv == (Len(gameHistory) % 2 = 0) <=> (Turn(game) = "w")

\* C2: when New Game was issued after an AI turn was scheduled or started,
\* the delivery of that turn's result leaves Position, History, active color
\* and the running flag unchanged.
StaleResultDiscardedAfterReset ==
  [][\A r \in requests :
       (r.sinceReset /\ Delivered(r.id)) => UNCHANGED sessionVars]_vars

\* C4: at every moment at most one AI request is active per color.
AtMostOneRequestPerColor ==
  \A r1, r2 \in requests : r1.isWhite = r2.isWhite => r1.id = r2.id

\* C5: undo removes the last two entries of History (the single entry when
\* only one exists) and sets Position to the replay of the remaining History
\* from the starting position.
UndoReplaysHistory ==
  [][undoMove => /\ gameHistory' = SliceOffTwo(gameHistory)
                 /\ game' = Replay(StartPos, gameHistory')]_vars

\* C3: when the game is stopped while an AI request is in flight, the
\* delivery of that request's result leaves Position, History and the
\* active color unchanged.
StoppedRequestResultDiscarded ==
  [][\A r \in requests :
       (r.sinceStop /\ Delivered(r.id)) => UNCHANGED <<game, gameHistory, currentPlayer>>]_vars

\* C14: every step either changes Position and History together (and sets
\* the active color to the side to move of the new Position) or changes
\* neither of them.
PositionAndHistoryChangeTogether ==
  [][/\ (game' # game) <=> (gameHistory' # gameHistory)
     /\ currentPlayer' = ColorOf(Turn(game'))]_vars

\* C16: while the Position is terminal, no step other than New Game changes
\* Position or History or starts an AI request.
TerminalPositionFrozen ==
  [][(IsGameOver(game) /\ ~resetGame)
       => /\ UNCHANGED <<game, gameHistory>>
          /\ {r.id : r \in requests'} \subseteq {r.id : r \in requests}]_vars

\* C17: New Game leaves the session stopped with the starting position, an
\* empty History, White as active color, both colors' transcripts empty and
\* the AI-thinking indicator off.
ResetRestoresInitialSession ==
  [][resetGame => /\ game' = StartPos
                  /\ gameHistory' = <<>>
                  /\ currentPlayer' = "white"
                  /\ ~isGameRunning'
                  /\ whiteThoughts' = <<>> /\ whiteCurrentThought' = <<>>
                  /\ blackThoughts' = <<>> /\ blackCurrentThought' = <<>>
                  /\ ~isAiThinking']_vars

\* New Game was issued after a move, while an AI turn was scheduled
ResetRestoresInitialSessionWitness ==
  /\ \E t \in timers : t.sinceReset /\ t.game # StartPos
  /\ game = StartPos
  /\ gameHistory = <<>>
  /\ currentPlayer = "white"
  /\ ~isGameRunning
  /\ whiteThoughts = <<>> /\ whiteCurrentThought = <<>>
  /\ blackThoughts = <<>> /\ blackCurrentThought = <<>>
  /\ ~isAiThinking

\* ------------------------------------------------------------------------
\* Turn claims (response text -> token -> move)
\* ------------------------------------------------------------------------
\* the turn is complete
TurnDone == rOut.phase = "done"

\* san is the notation of a move of the list
IsLegalSan(moves, san) == \E i \in 1..Len(moves) : moves[i].san = san

\* C6: whenever an AI request completes with response text while the
\* position has at least one legal move, a legal move is applied for that
\* turn (the resolved move or the fallback move), also when no candidate
\* token can be extracted from the text.
EveryCompletionPlaysALegalMove ==
  (TurnDone /\ rMoves # <<>>) => IsLegalSan(rMoves, rOut.move)

\* the turn went through the handler's fallback selection
FallbackSelected ==
  /\ TurnDone
  /\ rOut.handler \in {"effect", "earlier"}
  /\ rOut.tok # NoMove
  /\ rOut.via \in {"fallback", "none"}

\* C7: for every non-empty list of legal moves, the fallback selection
\* (by preference in the effect-driven handler, at random in the earlier
\* one) returns a member of that list.
FallbackSelectsMember ==
  (FallbackSelected /\ rMoves # <<>>) => IsLegalSan(rMoves, rOut.selected)

\* the fallback selected a development move of a position without a plain
\* pawn advance
FallbackSelectsMemberWitness ==
  /\ FallbackSelected
  /\ rOut.handler = "effect"
  /\ rMoves = KingAndKnightMoves
  /\ rOut.selected = <<"N", "a", "3">>
  /\ rOut.move = rOut.selected

\* C8: a token equal to the standard notation of a legal move m resolves
\* to m itself.
SanTokenResolvesToItself ==
  (TurnDone /\ IsLegalSan(rMoves, rOut.tok)) => rOut.move = rOut.tok

\* the handler received the capture Nxe5 and played it
SanTokenResolvesToItselfWitness ==
  /\ TurnDone
  /\ rOut.handler = "effect"
  /\ rOut.tok = <<"N", "x", "e", "5">>
  /\ rOut.move = rOut.tok
  /\ rOut.via = "direct"

\* the pawn-type moves of the list whose destination is the square sq
PawnMovesTo(moves, sq) ==
  {i \in 1..Len(moves) : moves[i].to = sq /\ moves[i].san[1] \in Files}

\* C9: when the token is only a two-character destination square and
\* exactly one pawn-type legal move has that destination, the handler plays
\* that pawn move.
DestinationTokenPlaysPawnMove ==
  (/\ TurnDone
   /\ rOut.handler = "effect"
   /\ IsSquare(rOut.tok)
   /\ Cardinality(PawnMovesTo(rMoves, rOut.tok)) = 1)
    => \E i \in PawnMovesTo(rMoves, rOut.tok) : rOut.move = rMoves[i].san

\* the token named on the decision line of the text
DecisionToken(text) == FirstToken(DecisionText(text))

\* tok is no notation of a legal move: neither the rules library nor any of
\* the handler's matching strategies relates it to a move of the list
NamesNoLegalMove(moves, tok) ==
  /\ ChessJsMove(moves, tok) = 0
  /\ \A i \in 1..Len(moves) : ~MatchesMove(moves[i], tok)

\* a plain pawn advance if the list has one, otherwise its first move
PawnElseFirst(available) ==
  IF FindIndex(available, IsPlainPawnMove) # 0
  THEN available[FindIndex(available, IsPlainPawnMove)]
  ELSE available[1]

\* C10: when the decision line of the text names an illegal or malformed
\* move and legal moves exist, the move played is a plain pawn advance if
\* the list has one, otherwise the first legal move, and an error annotation
\* is recorded.
IllegalDecisionPlaysPawnElseFirst ==
  (/\ TurnDone
   /\ rOut.handler = "effect"
   /\ rMoves # <<>>
   /\ DecisionAt(rText) # 0
   /\ NamesNoLegalMove(rMoves, DecisionToken(rText)))
    => (rOut.move = PawnElseFirst(Sans(rMoves)) /\ rOut.error)

\* text ends with the decision line naming e5 and has no decision marker
\* before that line
EndsWithDecisionE5(text) ==
  LET n == Len(text) - Len(Decision(tE5))
  IN /\ n >= 0
     /\ SubSeq(text, n + 1, Len(text)) = Decision(tE5)
     /\ \A i \in 1..n : text[i] \notin MarkerItems

NoLegalMoveTurnSendsNoRequest ==
  (rMoves = <<>> /\ rOut.phase # "idle")
    => (~rOut.called /\ rOut.move = NoMove /\ rOut.selected = NoMove)

\* agent.getMove was called for the checkmated side and returned null at once
NoLegalMoveTurnSendsNoRequestWitness ==
  /\ TurnDone
  /\ rMoves = CheckmatedMoves
  /\ rOut.handler = "session"
  /\ rOut.tok = NoMove
  /\ ~rOut.called

\* ------------------------------------------------------------------------
\* Board claims (ChessBoard.tsx, makeMove)
\* ------------------------------------------------------------------------
\* move is the origin+destination of a legal move of pos
IsLegalInput(pos, move) == \E i \in 1..Len(LegalMoves(pos)) : LegalMoves(pos)[i].lan = move

\* C13: a human-submitted move that is not among the legal moves of the
\* current Position changes neither Position, History, active color nor the
\* running flag, and schedules no AI request.
IllegalHumanMoveRejected ==
  [][\A move \in HumanInputs(game) :
       (handleSquareClick(move) /\ ~IsLegalInput(game, move))
         => UNCHANGED <<sessionVars, timers, requests, nextId>>]_vars

\* the enabled board passed e2e5 to makeMove after 1.f3 and nothing changed
IllegalHumanMoveRejectedWitness ==
  /\ submitted = [move |-> IllegalLan, disabled |-> FALSE]
  /\ isGameRunning
  /\ game = <<mF3.san>>
  /\ gameHistory = <<mF3.san>>
  /\ blackPlayer = "human"
  /\ timers = {}

\* the seat of the side to move in the current Position
SeatToMove == IF Turn(game) = "w" THEN whitePlayer ELSE blackPlayer

\* C15: a click on the board applies a move only when the session is running
\* and the seat of the side to move is human; in every other state the click
\* changes nothing.
HumanMoveOnlyForRunningHumanSeat ==
  [][\A move \in HumanInputs(game) :
       (handleSquareClick(move) /\ ~(isGameRunning /\ SeatToMove = "human"))
         => UNCHANGED <<sessionVars, isAiThinking, thoughtVars, configVars, timers,
                        requests, nextId>>]_vars

\* after 1.f3, during the delay before Black's AI turn starts, the click
\* e7-e5 was ignored
HumanMoveOnlyForRunningHumanSeatWitness ==
  /\ submitted = [move |-> mE5.lan, disabled |-> TRUE]
  /\ isGameRunning
  /\ ~isAiThinking
  /\ blackPlayer = "ai"
  /\ game = <<mF3.san>>
  /\ gameHistory = <<mF3.san>>
  /\ timers # {}

\* ------------------------------------------------------------------------
\* Handler claims (effect-driven AIMoveHandler in the hook-based session)
\* ------------------------------------------------------------------------
\* C18: when an AI turn starts for a color, that color's transcript is
\* cleared: after the step neither the committed text nor the in-flight
\* chunk holds anything written during an earlier turn.
TranscriptClearedAtTurnStart ==
  [][\A t \in timers :
       (effectMakeAiMoveStart(t) /\ createAgent(t.cfg, t.env.keys))
         => LET isWhite == Turn(t.game) = "w"
                committed == IF isWhite THEN whiteThoughts' ELSE blackThoughts'
                current == IF isWhite THEN whiteCurrentThought' ELSE blackCurrentThought'
            IN \A x \in Range(committed) \cup Range(current) : x.req = t.id]_vars

\* ------------------------------------------------------------------------
\* Streaming claims
\* ------------------------------------------------------------------------
\* request r is no longer the current one of its color: New Game or Stop was
\* issued after it was scheduled, or a later request of its color is active
NoLongerCurrent(r) ==
  \/ r.sinceReset
  \/ r.sinceStop
  \/ \E r2 \in requests : r2.isWhite = r.isWhite /\ r2.id > r.id

\* C19: a chunk of a request that is no longer the current one of its color
\* is not appended; a chunk of the current request is appended at the end of
\* its color's transcript, which holds the earlier chunks of that request in
\* emission order and no chunk of another request.
ChunksOfCurrentRequestInOrder ==
  [][\A r \in requests :
       onThought(r)
         => LET committed == IF r.isWhite THEN whiteThoughts ELSE blackThoughts
                after == IF r.isWhite THEN whiteThoughts' ELSE blackThoughts'
            IN IF NoLongerCurrent(r)
               THEN UNCHANGED thoughtVars
               ELSE /\ after = Append(committed, ChunkOf(r.id, r.sent + 1))
                    /\ committed = [n \in 1..r.sent |-> ChunkOf(r.id, n)]]_vars

\* ------------------------------------------------------------------------
\* Configuration claims
\* ------------------------------------------------------------------------
\* C20: when an AI turn begins for a seat without a credential, an error is
\* recorded in that color's transcript, no request is sent to the provider,
\* and Position, History and the active color are unchanged.
MissingCredentialTurnRecordsError ==
  [][\A t \in timers :
       (makeAiMoveStart(t) /\ t.env.running /\ t.cfg = "ai" /\ ~t.env.keys /\ ~apiKeys)
         => LET isWhite == Turn(t.game) = "w"
                committed == IF isWhite THEN whiteThoughts' ELSE blackThoughts'
                current == IF isWhite THEN whiteCurrentThought' ELSE blackCurrentThought'
            IN /\ ErrorNote(t.id) \in Range(committed) \cup Range(current)
               /\ requests' = requests
               /\ UNCHANGED <<game, gameHistory, currentPlayer>>]_vars

\* ------------------------------------------------------------------------
\* Failure claims
\* ------------------------------------------------------------------------
\* C21: when a request ends with a provider error, the error is written to
\* its color's transcript, Position, History and active color are unchanged
\* and the step neither schedules a turn nor starts a request; a turn is
\* scheduled only by a step that toggles the game or applies a move.
ProviderErrorAnnotatedNoRetry ==
  [][/\ \A r \in requests :
          makeAiMoveFailed(r)
            => LET committed == IF r.isWhite THEN whiteThoughts' ELSE blackThoughts'
                   current == IF r.isWhite THEN whiteCurrentThought'
                              ELSE blackCurrentThought'
               IN /\ AgentErrorNote(r.id) \in Range(committed)
                  /\ ErrorNote(r.id) \in Range(current)
                  /\ UNCHANGED <<game, gameHistory, currentPlayer>>
                  /\ {t.id : t \in timers'} = {t.id : t \in timers}
                  /\ requests' = requests \ {r}
     /\ ({t.id : t \in timers'} \ {t.id : t \in timers} # {})
          => (isGameRunning' # isGameRunning \/ game' # game)]_vars

\* Black's request after 1.e4 failed: the error is in Black's transcript,
\* nothing is scheduled or in flight and the game is still running
ProviderErrorAnnotatedNoRetryWitness ==
  /\ game = <<mE4.san>>
  /\ isGameRunning
  /\ AgentErrorNote(1) \in Range(blackThoughts)
  /\ ErrorNote(1) \in Range(blackCurrentThought)
  /\ timers = {}
  /\ requests = {}

\* ------------------------------------------------------------------------
\* Undo claims
\* ------------------------------------------------------------------------
\* C22: an Undo command issued while the running flag is false leaves
\* Position, History and the active color unchanged.
UndoWhenStoppedNoEffect ==
  [][(handleUndoClick /\ ~isGameRunning)
       => UNCHANGED <<game, gameHistory, currentPlayer>>]_vars

\* Undo was clicked on a stopped game that has a History
UndoWhenStoppedNoEffectWitness ==
  /\ submitted.move = UndoCommand
  /\ submitted.disabled
  /\ ~isGameRunning
  /\ ~isAiThinking
  /\ gameHistory # <<>>

\* ------------------------------------------------------------------------
\* Resolution claims
\* ------------------------------------------------------------------------
\* the first matching strategy of the effect-driven handler that accepts move
\* m for the token: 1 standard notation, 2 long notation, 3 origin and
\* destination, 4 equality after stripping and case folding, 5 destination
\* only, 6 prefix or containment, 7 piece-specific, 8 none
TierOfMatch(m, aiMove) ==
  LET cleanAiMove == ToLower(Trim(ReplaceFirst(aiMove, MoveMarks)))
      cleanSan == ToLower(Trim(ReplaceFirst(m.san, MoveMarks)))
  IN IF m.san = aiMove THEN 1
     ELSE IF m.lan = aiMove THEN 2
     ELSE IF (m.from \o m.to) = aiMove THEN 3
     ELSE IF cleanSan = cleanAiMove THEN 4
     ELSE IF Len(cleanAiMove) = 2 /\ m.to = cleanAiMove THEN 5
     ELSE IF \/ StartsWith(m.san, cleanAiMove) \/ StartsWith(cleanAiMove, cleanSan)
             \/ Includes(m.san, cleanAiMove) \/ Includes(cleanAiMove, cleanSan) THEN 6
     ELSE IF MatchesMove(m, aiMove) THEN 7
     ELSE 8

\* the same for the earlier handler
TierOfMatchEarlier(m, aiMove) ==
  LET cleanAiMove == Trim(ReplaceFirst(aiMove, MoveMarks))
      cleanSan == Trim(ReplaceFirst(m.san, MoveMarks))
  IN IF m.san = aiMove THEN 1
     ELSE IF m.lan = aiMove THEN 2
     ELSE IF (m.from \o m.to) = aiMove THEN 3
     ELSE IF cleanSan = cleanAiMove \/ ToLower(cleanSan) = ToLower(cleanAiMove) THEN 4
     ELSE IF Len(cleanAiMove) = 2 /\ m.to = cleanAiMove THEN 5
     ELSE IF StartsWith(m.san, cleanAiMove) \/ StartsWith(cleanAiMove, cleanSan) THEN 6
     ELSE 8

\* C23: when a handler resolves the token through its matching strategies,
\* no legal move of the list matches the token by an earlier strategy than
\* the move that is played.
TiersTriedInOrder ==
  (TurnDone /\ rOut.via = "match" /\ rOut.handler \in {"effect", "earlier"})
    => \A i, j \in 1..Len(rMoves) :
         rMoves[i].san = rOut.move
           => IF rOut.handler = "effect"
              THEN TierOfMatch(rMoves[i], rOut.tok) <= TierOfMatch(rMoves[j], rOut.tok)
              ELSE TierOfMatchEarlier(rMoves[i], rOut.tok)
                     <= TierOfMatchEarlier(rMoves[j], rOut.tok)

\* the token and the notation of m are equal after removing a check, mate
\* or annotation mark and folding case
EqualWhenCleaned(m, tok) ==
  ToLower(Trim(ReplaceFirst(m.san, MoveMarks))) = ToLower(Trim(ReplaceFirst(tok, MoveMarks)))

\* C24: a token that is the notation of no legal move but equals the
\* notation of the legal move m after stripping marks and folding case
\* resolves to m.
CleanedTokenResolvesToItsMove ==
  (TurnDone /\ rOut.tok # NoMove /\ ~IsLegalSan(rMoves, rOut.tok))
    => \A i \in 1..Len(rMoves) :
         EqualWhenCleaned(rMoves[i], rOut.tok) => rOut.move = rMoves[i].san

\* the token is the long notation or the origin+destination of m
InLongNotation(m, tok) == m.lan = tok \/ (m.from \o m.to) = tok

\* C25: a token that is the notation of no legal move but the long notation
\* or the origin+destination of exactly one legal move m resolves to m.
LongNotationTokenResolvesToItsMove ==
  (TurnDone /\ rOut.tok # NoMove /\ ~IsLegalSan(rMoves, rOut.tok))
    => \A i \in 1..Len(rMoves) :
         (/\ InLongNotation(rMoves[i], rOut.tok)
          /\ \A j \in 1..Len(rMoves) : InLongNotation(rMoves[j], rOut.tok) => j = i)
           => rOut.move = rMoves[i].san

\* ---- Fallback claims ----

\* the k-th predicate of the fallback order holds of the notation
FallbackPredicate(k, move) ==
  CASE k = 1 -> IsPlainPawnMove(move)
    [] k = 2 -> IsDevelopmentMove(move)
    [] k = 3 -> IsCastling(move)
    [] k = 4 -> IsCapture(move)
    [] OTHER -> TRUE

\* the notations of the legal moves, in enumeration order
LegalSans == [i \in 1..Len(rMoves) |-> rMoves[i].san]

\* the first predicate that some legal move satisfies
FirstPredicateWithMatch ==
  CHOOSE k \in 1..5 :
    /\ \E i \in 1..Len(LegalSans) : FallbackPredicate(k, LegalSans[i])
    /\ \A j \in 1..(k - 1) : \A i \in 1..Len(LegalSans) : ~FallbackPredicate(j, LegalSans[i])

\* C26: the fallback selection of the effect-driven handler returns the
\* first move, in enumeration order, that satisfies the first of the
\* predicates (plain pawn advance, non-capturing N/B/R/Q move to a square,
\* castling, any capture, any move) that some legal move satisfies.
FallbackFollowsPreferenceOrder ==
  (FallbackSelected /\ rOut.handler = "effect" /\ rMoves # <<>>)
    => \E i \in 1..Len(LegalSans) :
         /\ rOut.selected = LegalSans[i]
         /\ FallbackPredicate(FirstPredicateWithMatch, LegalSans[i])
         /\ \A j \in 1..(i - 1) : ~FallbackPredicate(FirstPredicateWithMatch, LegalSans[j])

\* the fallback took the capture, second in enumeration order, of a
\* position without pawn advance, development move or castling
FallbackFollowsPreferenceOrderWitness ==
  /\ FallbackSelected
  /\ rOut.handler = "effect"
  /\ rMoves = KingTakesPawnMoves
  /\ FirstPredicateWithMatch = 4
  /\ rOut.selected = <<"K", "x", "b", "2">>
  /\ rOut.move = rOut.selected

\* some legal move satisfies one of the predicates 1 to 4
SomePreferenceMatches ==
  \E k \in 1..4 : \E i \in 1..Len(LegalSans) : FallbackPredicate(k, LegalSans[i])

\* the move a call of the handler's fallback selection returns when the
\* random source yields rnd
SelectionWith(rnd) ==
  IF rOut.handler = "effect" THEN selectFallback(LegalSans, rnd) ELSE randomMove(LegalSans, rnd)

\* C27: whenever some legal move satisfies one of the predicates 1 to 4,
\* the fallback selection does not depend on the random source: every other
\* call with the same legal-move list returns the move this call selected.
FallbackDeterministicWithPreference ==
  (FallbackSelected /\ rMoves # <<>> /\ SomePreferenceMatches)
    => \A rnd \in RandomIndexes(Len(rMoves)) : SelectionWith(rnd) = rOut.selected

\* ---- Extraction claims ----

\* the text has a decision marker followed by decision text
HasDecisionMarker(text) == DecisionAt(text) # 0

\* C28: when the response text has a decision marker followed by a
\* move-shaped token, that token is the extracted candidate; when it has a
\* decision marker without such a token, no token from elsewhere in the text
\* is extracted.
DecisionMarkerPreferred ==
  (TurnDone /\ HasDecisionMarker(rText))
    => IF isValidMoveFormat(DecisionToken(rText)) THEN rOut.tok = DecisionToken(rText)
       ELSE rOut.tok = NoMove

\* ---- Scheduling claims ----

\* the provider answers the request r with the notation of a legal move
providerAnswers(r) ==
  \E tok \in {m.san : m \in Range(LegalMoves(r.game))} : makeAiMoveDone(r, tok)

\* The session of ChessGame.tsx with its scheduling: a setTimeout callback
\* that is pending is eventually run, and the provider eventually answers a
\* request that is in flight; the user's commands are under no obligation.
SpecLive ==
  /\ Init
  /\ [][Next]_vars
  /\ WF_vars(\E t \in timers : makeAiMoveStart(t))
  /\ WF_vars(\E r \in requests : providerAnswers(r))

\* the stopped session was started at the initial position with an AI seat
\* for White whose credential is set, in the session and in the render the
\* scheduled callback belongs to
StartedOnAiSeat ==
  /\ isGameRunning /\ game = StartPos /\ gameHistory = <<>>
  /\ whitePlayer = "ai" /\ apiKeys
  /\ \E t \in timers : t.game = StartPos /\ t.cfg = "ai" /\ t.env.keys /\ ~t.sinceReset

\* C29: a session started with an AI seat to move and a valid credential
\* eventually has an AI request for that color in flight, unless it is
\* stopped or reconfigured first; starting with a human seat to move
\* schedules and starts no AI request.
StartLeadsToAiRequest ==
  /\ StartedOnAiSeat
       ~> (\/ \E r \in requests : r.isWhite /\ r.game = StartPos
           \/ ~isGameRunning \/ whitePlayer # "ai" \/ ~apiKeys)
  /\ [][(toggleGame /\ ~isGameRunning /\ SeatToMove = "human")
          => (timers' = timers /\ requests' = requests)]_vars

\* the positions of the fragment reached from pos by at most n moves
RECURSIVE LinesFrom(_, _)
LinesFrom(pos, n) ==
  IF n = 0 THEN {pos}
  ELSE {pos} \cup UNION {LinesFrom(ApplyMove(pos, m), n - 1) : m \in Range(LegalMoves(pos))}

\* a move led to pos in a running session, pos is not terminal, the seat to
\* move is an AI seat whose credential is set, and the step that applied the
\* move scheduled the AI turn from a render of the running session
MoveAppliedBeforeAiSeat(pos) ==
  /\ game = pos /\ isGameRunning /\ ~IsGameOver(pos)
  /\ SeatToMove = "ai" /\ apiKeys
  /\ \E t \in timers : t.game = pos /\ t.cfg = "ai" /\ t.env.running /\ ~t.sinceReset

\* C30: after a move is applied, if the new position is not terminal, the
\* seat to move is an AI seat with its credential set and the session is
\* running, an AI request for that position is eventually in flight, unless
\* the session is stopped or reconfigured or the position is changed first;
\* with both seats AI this is the step by which play continues.
MoveLeadsToAiRequest ==
  \A pos \in LinesFrom(StartPos, MaxPly) \ {StartPos} :
    MoveAppliedBeforeAiSeat(pos)
      ~> (\/ \E r \in requests : r.game = pos
          \/ game # pos \/ ~isGameRunning \/ SeatToMove # "ai" \/ ~apiKeys)

\* ------------------------------------------------------------------------
\* SpecAgent: createAgent over the seat configurations and the credentials
\* ------------------------------------------------------------------------
\* In this specification whitePlayer holds the whole PlayerConfig of a seat
\* and apiKeys the whole credential record; rOut holds what createAgent
\* returned.

\* the values of LLMProvider
pOpenaiGpt4 == <<"o", "p", "e", "n", "a", "i", "-", "g", "p", "t", "4">>
pOpenaiGpt35 == <<"o", "p", "e", "n", "a", "i", "-", "g", "p", "t", "3", "5">>
pClaudeSonnet == <<"c", "l", "a", "u", "d", "e", "-", "s", "o", "n", "n", "e", "t">>
pClaudeHaiku == <<"c", "l", "a", "u", "d", "e", "-", "h", "a", "i", "k", "u">>
pGeminiPro == <<"g", "e", "m", "i", "n", "i", "-", "p", "r", "o">>
pGeminiFlash == <<"g", "e", "m", "i", "n", "i", "-", "f", "l", "a", "s", "h">>
pAzureGpt4 == <<"a", "z", "u", "r", "e", "-", "g", "p", "t", "4">>
pAzureGpt35 == <<"a", "z", "u", "r", "e", "-", "g", "p", "t", "3", "5">>
LLMProviders ==
  {pOpenaiGpt4, pOpenaiGpt35, pClaudeSonnet, pClaudeHaiku, pGeminiPro, pGeminiFlash,
   pAzureGpt4, pAzureGpt35}

\* llmProvider?: undefined when no provider is selected
NoProvider == <<>>

\* the entries of apiKeys: a key that was never entered is undefined, a key
\* that was entered and deleted again is the empty string; both are falsy
KeyNames == {"openai", "anthropic", "google", "azure", "azureEndpoint", "azureDeploymentName"}
NoKey == <<>>
KeyValues == {NoKey, <<"k">>}

\* createAgent returned null
NoAgent == [created |-> FALSE]

sOpenai == <<"o", "p", "e", "n", "a", "i">>
sClaude == <<"c", "l", "a", "u", "d", "e">>
sGemini == <<"g", "e", "m", "i", "n", "i">>
sAzure == <<"a", "z", "u", "r", "e">>

\* requiredKey: the entry of apiKeys chosen by the if / else-if chain
requiredKey(provider) ==
  IF StartsWith(provider, sOpenai) THEN "openai"
  ELSE IF StartsWith(provider, sClaude) THEN "anthropic"
  ELSE IF StartsWith(provider, sGemini) THEN "google"
  ELSE IF StartsWith(provider, sAzure) THEN "azure"
  ELSE "undefined"

\* an Azure seat enabled by the key alone
hasRequiredConfigKeyOnly(provider, keys) ==
  requiredKey(provider) \in KeyNames /\ keys[requiredKey(provider)] # NoKey

\* hasRequiredConfig
hasRequiredConfig(provider, keys) ==
  IF StartsWith(provider, sOpenai) THEN keys["openai"] # NoKey
  ELSE IF StartsWith(provider, sClaude) THEN keys["anthropic"] # NoKey
  ELSE IF StartsWith(provider, sGemini) THEN keys["google"] # NoKey
  ELSE IF StartsWith(provider, sAzure)
  THEN keys["azure"] # NoKey /\ keys["azureEndpoint"] # NoKey
       /\ keys["azureDeploymentName"] # NoKey
  ELSE FALSE

\* createAgent(config): null, or the agent built from llmConfig
createAgentFor(config, keys) ==
  IF config.type # "ai" \/ config.llmProvider = NoProvider THEN NoAgent
  ELSE IF ~hasRequiredConfig(config.llmProvider, keys) THEN NoAgent
  ELSE [created |-> TRUE, provider |-> config.llmProvider,
        apiKey |-> keys[requiredKey(config.llmProvider)]]

\* a seat configuration and a credential record as the two panels can leave
\* them; no call of createAgent has been made
InitAgent ==
  /\ game = StartPos
  /\ gameHistory = <<>>
  /\ currentPlayer = "white"
  /\ isGameRunning = FALSE
  /\ isAiThinking = FALSE
  /\ whiteThoughts = <<>>
  /\ blackThoughts = <<>>
  /\ whiteCurrentThought = <<>>
  /\ blackCurrentThought = <<>>
  /\ apiKeys \in [KeyNames -> KeyValues]
  /\ whitePlayer \in [type : {"human", "ai"}, llmProvider : LLMProviders \cup {NoProvider}]
  /\ blackPlayer = "human"
  /\ toggleEnv = Snapshot(FALSE, FALSE, "human", "human", <<>>, <<>>)
  /\ moveEnv = toggleEnv
  /\ timers = {}
  /\ requests = {}
  /\ nextId = 1
  /\ configCount = 0
  /\ rText = <<>>
  /\ rMoves = <<>>
  /\ rOut = IdleOutcome
  /\ submitted = NoSubmission
  /\ shouldMakeMove = FALSE

\* const agent = createAgent(playerConfig), at the head of makeAiMove
callCreateAgent ==
  /\ rOut = IdleOutcome
  /\ rOut' = [phase |-> "agent", agent |-> createAgentFor(whitePlayer, apiKeys)]
  /\ UNCHANGED <<sessionVars, isAiThinking, thoughtVars, configVars, toggleEnv, moveEnv,
                 timers, requests, nextId, configCount, rText, rMoves, submitted,
                 shouldMakeMove>>

NextAgent == callCreateAgent

SpecAgent == InitAgent /\ [][NextAgent]_vars

\* ---- Agent claims ----

\* the provider's family: the part of its name before the hyphen
FamilyOf(provider) ==
  SubSeq(provider, 1, (CHOOSE i \in 1..Len(provider) : provider[i] = "-"
                                                        /\ \A j \in 1..(i - 1) : provider[j] # "-") - 1)

\* the credential entries a family needs
FamilyCredential(family) ==
  CASE family = sOpenai -> {"openai"}
    [] family = sClaude -> {"anthropic"}
    [] family = sGemini -> {"google"}
    [] family = sAzure -> {"azure", "azureEndpoint", "azureDeploymentName"}

\* createAgent has been called
AgentCallDone == rOut.phase = "agent"

\* C31: an agent is created for a seat if and only if the seat is an AI seat
\* with a provider selected and every credential entry of that provider's
\* family is non-empty; the agent is given the key of that family, so the
\* credential of another family never enables the seat.
AgentIffFamilyCredential ==
  AgentCallDone
    => LET config == whitePlayer
           enabled == /\ config.type = "ai"
                      /\ config.llmProvider # NoProvider
                      /\ \A k \in FamilyCredential(FamilyOf(config.llmProvider)) :
                           apiKeys[k] # NoKey
       IN /\ rOut.agent.created <=> enabled
          /\ rOut.agent.created
               => /\ rOut.agent.provider = config.llmProvider
                  /\ rOut.agent.apiKey # NoKey
                  /\ \E k \in FamilyCredential(FamilyOf(config.llmProvider)) :
                       rOut.agent.apiKey = apiKeys[k]

\* an Azure seat is refused although the Azure key and the keys of three
\* other families are entered, because the deployment name is missing
AgentIffFamilyCredentialWitness ==
  /\ AgentCallDone
  /\ whitePlayer = [type |-> "ai", llmProvider |-> pAzureGpt4]
  /\ apiKeys["azure"] # NoKey /\ apiKeys["azureEndpoint"] # NoKey
  /\ apiKeys["azureDeploymentName"] = NoKey
  /\ apiKeys["openai"] # NoKey /\ apiKeys["anthropic"] # NoKey /\ apiKeys["google"] # NoKey
  /\ ~rOut.agent.created

\* ---- Request claims ----

\* getMove of the request r returns: with a token or null after the stream
\* ended, or with null from its catch block
getMoveReturns(r) ==
  \/ \E tok \in AiTokens(r.game) : makeAiMoveDone(r, tok)
  \/ makeAiMoveFailed(r)

\* The session of ChessGame.tsx with a provider whose stream always ends or
\* fails: a pending setTimeout callback is eventually run and the getMove
\* call of a request in flight eventually returns.
SpecSettle ==
  /\ Init
  /\ [][Next]_vars
  /\ WF_vars(\E t \in timers : makeAiMoveStart(t))
  /\ WF_vars(\E r \in requests : getMoveReturns(r))

\* the requests in flight, by the number of the timer that started them
InFlight == {r.id : r \in requests}

\* the scheduled AI turns, by the number of their timer
Scheduled == {t.id : t \in timers}

\* the chunks of request id in the transcripts
ChunksIn(id, ws, bs) ==
  {c \in Range(ws) \cup Range(bs) : c.kind = "chunk" /\ c.req = id}

\* C32: every started request ends with exactly one outcome: it stays in
\* flight until the step in which getMove returns (with a result or from its
\* catch block), that step takes it out of flight for good (a request
\* starts only from its own timer, and timers are numbered once), chunks of
\* a request are emitted only while it is in flight, and the requests in
\* flight are eventually all out of flight.
RequestEndsOnce ==
  /\ [][\A id \in 1..MaxTimers :
          /\ (id \in InFlight /\ id \notin InFlight')
               => \E r \in requests : r.id = id /\ getMoveReturns(r)
          /\ (\E r \in requests : r.id = id /\ getMoveReturns(r)) => id \notin InFlight'
          /\ (id \notin InFlight /\ id \in InFlight')
               => (id \in Scheduled /\ id \notin Scheduled')
          /\ (id \notin Scheduled /\ id \in Scheduled') => nextId = id
          /\ (ChunksIn(id, whiteThoughts', blackThoughts')
                \ ChunksIn(id, whiteThoughts, blackThoughts) # {})
               => (id \in InFlight /\ id \in InFlight')]_vars
  /\ (InFlight # {}) ~> (InFlight = {})

\* the first request streamed a chunk and then returned a move that was
\* applied; nothing is in flight
RequestEndsOnceWitness ==
  /\ InFlight = {} /\ Scheduled = {} /\ nextId = 2
  /\ ChunksIn(1, whiteThoughts, blackThoughts) # {}
  /\ Len(game) = 2 /\ ~isAiThinking

\* ---- Toggle claims ----

\* C33: a toggle between running and stopped inverts the running flag and
\* leaves Position, History, active color, both transcripts and both
\* in-flight chunks as they were; on start it may schedule one AI turn, and
\* it starts or ends no request.
ToggleChangesOnlyRunningFlag ==
  [][toggleGame
       => /\ isGameRunning' = ~isGameRunning
          /\ UNCHANGED <<game, gameHistory, currentPlayer, thoughtVars, isAiThinking>>
          /\ InFlight' = InFlight
          /\ Scheduled \subseteq Scheduled'
          /\ (Scheduled' # Scheduled) => isGameRunning']_vars

\* the game was stopped while Black's request was in flight, after White's
\* move and a streamed chunk: the move and the transcript are still there
ToggleChangesOnlyRunningFlagWitness ==
  /\ ~isGameRunning
  /\ Len(game) = 1 /\ gameHistory = game /\ currentPlayer = "black"
  /\ \E r \in requests : r.sinceStop /\ ~r.isWhite
  /\ blackThoughts # <<>>

\* ---- Position claims ----

\* C34: every change of Position is a reset to the starting position, an
\* undo (the Position becomes one it was earlier in the same line), or the
\* application of a move that is legal in the Position current at the
\* moment of the change.
PositionChangesFromCurrent ==
  [][game' # game
       => \/ game' = StartPos
          \/ \E n \in 0..(Len(game) - 1) : game' = SubSeq(game, 1, n)
          \/ \E m \in Range(LegalMoves(game)) : game' = ApplyMove(game, m)]_vars

\* ---- Indicator claims ----

\* C35: the AI-thinking indicator is true exactly while some AI request is
\* in flight: it is set when a request starts, cleared by every outcome of
\* the request, and not cleared while another request is still in flight.
ThinkingIffRequestInFlight == isAiThinking <=> (InFlight # {})

HumanCommand ==
  \/ \E move \in BoardInputs(game) : makeMove(move)
  \/ undoMove
  \/ resetGame

\* C36: while the AI-thinking indicator is true, human moves, undo and
\* new game are rejected, so that from the start of an AI request to its
\* outcome no human move, undo or new game takes effect.
NoHumanCommandDuringRequest ==
  [][(isAiThinking \/ InFlight # {}) => ~HumanCommand]_vars

\* ---- Similar-move substitution (AIMoveHandler.tsx) ----
\* the legal notations that start with the token's upper-cased first letter
SameLetterSans ==
  {i \in 1..Len(LegalSans) : LegalSans[i][1] = UpperChar(rOut.tok[1])}

\* the first of them with the token's capture kind, else the first of them
SubstituteFor(tok) ==
  LET sameKind == {i \in SameLetterSans : ("x" \in Range(LegalSans[i])) = ("x" \in Range(tok))}
      least(idx) == CHOOSE i \in idx : \A j \in idx : i <= j
  IN IF sameKind # {} THEN LegalSans[least(sameKind)] ELSE LegalSans[least(SameLetterSans)]

\* the effect-driven handler finished a turn for a token that is not the
\* notation of a legal move while a legal notation starts with its letter
SubstitutionCase ==
  /\ TurnDone
  /\ rOut.handler = "effect"
  /\ rOut.tok # NoMove
  /\ rOut.tok \notin Range(LegalSans)
  /\ SameLetterSans # {}

SeatKind(color, white, black) == IF color = "white" THEN white ELSE black

\* one of the effect's triggering conditions changes in the step
TriggerChanged ==
  \/ game' # game
  \/ currentPlayer' # currentPlayer
  \/ isGameRunning' # isGameRunning
  \/ SeatKind(currentPlayer', whitePlayer', blackPlayer')
       # SeatKind(currentPlayer, whitePlayer, blackPlayer)
  \/ shouldMakeMove' # shouldMakeMove

\* C38: in the effect-driven handler, a scheduled AI turn whose triggering
\* conditions (position, side to move, running flag, seat kind, should-move
\* flag) change before its delay elapses is cancelled and never starts a
\* request, and a request starts only from a pending timer, for the
\* position that is current when the delay elapses.
ScheduledTurnCancelledOnChange ==
  [][/\ TriggerChanged => Scheduled \cap Scheduled' = {}
     /\ \A id \in 1..MaxTimers :
          /\ (id \notin Scheduled /\ id \in Scheduled') => (nextId = id /\ nextId' = id + 1)
          /\ (id \notin InFlight /\ id \in InFlight') =>
               /\ \E t \in timers : t.id = id /\ t.game = game
               /\ \E r \in requests' : r.id = id /\ r.game = game
               /\ isGameRunning /\ shouldMakeMove
               /\ SeatKind(currentPlayer, whitePlayer, blackPlayer) = "ai"
               /\ currentPlayer = ColorOf(Turn(game))]_vars

\* Black's turn was scheduled after 1.e4 and the game was stopped during the
\* delay: no timer is pending and no request was started
ScheduledTurnCancelledOnChangeWitness ==
  /\ nextId = 2
  /\ Scheduled = {}
  /\ InFlight = {}
  /\ ~isGameRunning
  /\ shouldMakeMove
  /\ Len(game) = 1
  /\ blackThoughts = <<>>
  /\ blackCurrentThought = <<>>

\* ---- Transcript of one request ----
\* the in-flight chunk of a color
CurrentThoughtOf(isWhite) == IF isWhite THEN whiteCurrentThought ELSE blackCurrentThought

\* r is the request of the only AI turn scheduled in the session so far, and
\* New Game has not been pressed since it was scheduled: its color's
\* transcript was empty when it started
SingleRequest(r) == requests = {r} /\ r.id = 1 /\ nextId = 2 /\ ~r.sinceReset

\* C39: for a single AI request, the committed transcript of its color is
\* the concatenation, in emission order, of the chunks streamed since the
\* transcript was last cleared, and the in-flight chunk is the most recent
\* chunk.
TranscriptIsChunkConcatenation ==
  \A r \in requests :
    SingleRequest(r) =>
      /\ ThoughtsOf(r.isWhite) = [n \in 1..r.sent |-> ChunkOf(r.id, n)]
      /\ r.sent > 0 => CurrentThoughtOf(r.isWhite) = <<ChunkOf(r.id, r.sent)>>
====
